---- MODULE Spec2Model ----
(***************************************************************************)
(* A model of the multipart / compose upload engine of the asynchronous   *)
(* MinIO client (src/minio/api.py): Minio.put_object with its part plan,   *)
(* its lookahead reader and its abort-on-failure handler, and              *)
(* Minio.compose_object with its pre-pass _calc_part_count; and of the     *)
(* client's transport: Minio._execute, _url_open, _get_region with the     *)
(* region cache, and make_bucket, run by concurrent coroutines.            *)
(*                                                                         *)
(* Sizes are scaled: one model byte stands for a block of bytes, so that   *)
(* the relations between the limits are those of the program               *)
(*   MIN_PART_SIZE < MAX_PART_SIZE,                                        *)
(*   MAX_MULTIPART_OBJECT_SIZE <= MAX_PART_SIZE * MAX_MULTIPART_COUNT,     *)
(*   MAX_MULTIPART_OBJECT_SIZE >  MIN_PART_SIZE * MAX_MULTIPART_COUNT      *)
(* (5 MiB, 5 GiB, 5 TiB and 10000 in the program).                         *)
(***************************************************************************)
EXTENDS Integers, Sequences, FiniteSets, TLC

\* Limits imported from minio.helpers, scaled (see above).
MIN_PART_SIZE == 2
MAX_PART_SIZE == 4
MAX_MULTIPART_COUNT == 3
MAX_MULTIPART_OBJECT_SIZE == 12

\* Longest byte stream handed to put_object.
MaxStreamLen == 7
\* Largest total size handed to the part planner on its own.
MaxPlanSize == 14
\* Most sources handed to compose_object, and the largest effective size of
\* one source.
MaxSources == 2
MaxSourceSize == 9

None == "None"
\* An offset or length of a ComposeSource that is None.
Unset == -1
NoError == <<None, 0>>

VARIABLES
    call,            \* the operation under way: "put_object", "compose_object", "get_part_info"
    pc,              \* position of the call's coroutine
    requests,        \* requests sent to the destination, in sending order
    raised,          \* the error the call raised to its caller, NoError if none
    result,          \* what the call returned: None, or the kind of its result
    exc,             \* the exception caught by the call's except clause
    aborts_failed,   \* TRUE once an abort-multipart-upload request has failed
    \* put_object: arguments
    stream,          \* the bytes the source yields in all
    length,          \* argument length; -1 for unknown
    parallel_upload, \* argument parallel_upload
    requested_part_size, \* argument part_size as passed (0: not given)
    \* put_object: locals (src/minio/api.py:1583-1596)
    source,          \* the bytes the source has still to yield
    part_size,
    part_count,
    object_size,
    uploaded_size,
    part_number,
    one_byte,
    stop,
    upload_id,
    parts,
    parallel_tasks,
    extra_bytes,
    part_data,
    finished,        \* part numbers of the part-upload tasks, in the order they finished
    \* compose_object: arguments and locals (src/minio/api.py:1356-1425)
    sources,
    src_i,           \* index of the source the loop is at
    size,
    offset,
    total_parts,
    \* the client and its coroutines (src/minio/api.py:121-400, 484-531)
    base_region,     \* self._base_url.region: the constructor's region, or None
    provider,        \* self._provider is set: the client has credentials
    credentials,     \* what self._provider.retrieve() returns now
    region_map,      \* self._region_map: bucket -> region, None for no entry
    coro,            \* each coroutine's call: arguments, locals, position,
                     \* the HTTP requests it sent, outcome
    calls,           \* number of calls begun so far
    \* one request's headers (src/minio/api.py:170-228)
    is_https,        \* self._base_url.is_https
    hdr,             \* the request: its inputs, position, headers built
    delete_object_list, \* remove_objects: the input objects not yet taken
    objects,         \* remove_objects: the batch taken from the input
    yielded,         \* remove_objects: the error tuples yielded so far
    listing,         \* _list_objects: its arguments, locals and the bucket listed
    download         \* fget_object: the object, its locals and the two files

putVars == <<stream, length, parallel_upload, requested_part_size, source,
             part_size, part_count,
             object_size, uploaded_size, one_byte, stop, parts,
             parallel_tasks, extra_bytes, part_data, finished>>
putLocals == <<stream, length, parallel_upload, requested_part_size, source,
               part_size, uploaded_size, one_byte, stop, parts,
               parallel_tasks, extra_bytes, part_data, finished>>
composeVars == <<sources, src_i, size, offset, total_parts>>
objectVars == <<call, pc, requests, raised, result, exc, aborts_failed,
                part_number, upload_id, putVars, composeVars>>
clientVars == <<base_region, provider, credentials, region_map, coro, calls>>
headerVars == <<is_https, hdr>>
bulkVars == <<delete_object_list, objects, yielded, listing, download>>
vars == <<objectVars, clientVars, headerVars, bulkVars>>

----------------------------------------------------------------------------
\* Sequences and arithmetic

Min(a, b) == IF a <= b THEN a ELSE b

\* math.ceil(a / b) for a >= 0, b > 0
Ceil(a, b) == (a + b - 1) \div b

\* s[:n] for n >= 0
Take(s, n) == SubSeq(s, 1, Min(n, Len(s)))

\* s[n:] for n >= 0
Drop(s, n) == SubSeq(s, Min(n, Len(s)) + 1, Len(s))

\* <<1, ..., n>>: a stream of n bytes, each byte its own position, so that a
\* lost, duplicated or misplaced byte shows.
Bytes(n) == [i \in 1..n |-> i]

RECURSIVE Concat(_)
Concat(ss) == IF ss = <<>> THEN <<>> ELSE Head(ss) \o Concat(Tail(ss))

\* A request sent to the destination.
Request(op, uid, number, body) ==
    [op |-> op, upload_id |-> uid, part_number |-> number, body |-> body]

\* datatypes.Part(part_number, etag); the etag of a part is opaque and is
\* modelled by the part's number.
Part(number, etag) == [part_number |-> number, etag |-> etag]

----------------------------------------------------------------------------
\* PartPlanner: helpers.get_part_info(object_size, part_size)

PlanError == [ok |-> FALSE, part_size |-> 0, part_count |-> 0]
Plan(ps, pcount) == [ok |-> TRUE, part_size |-> ps, part_count |-> pcount]

\* Part sizes a derived plan may use for a known size s.
DerivablePartSizes(s) ==
    {ps \in MIN_PART_SIZE..MAX_PART_SIZE : Ceil(s, ps) <= MAX_MULTIPART_COUNT}

get_part_info(s, p) ==
    IF p > 0 /\ (p < MIN_PART_SIZE \/ p > MAX_PART_SIZE) THEN PlanError
    ELSE IF s < 0 THEN (IF p <= 0 THEN PlanError ELSE Plan(p, -1))
    ELSE IF p > 0 THEN Plan(p, Ceil(s, p))
    ELSE IF DerivablePartSizes(s) = {} THEN PlanError
    ELSE LET ps == CHOOSE x \in DerivablePartSizes(s) :
                       \A y \in DerivablePartSizes(s) : x <= y
         IN  Plan(ps, Ceil(s, ps))

----------------------------------------------------------------------------
\* PeekableByteSource: helpers.read_part_data(source, size, part_data)

\* The bytes returned: the carried-over bytes, then up to size - len(carry)
\* bytes of the source.
read_part_data(src, sz, carry) ==
    IF sz - Len(carry) <= 0 THEN carry ELSE carry \o Take(src, sz - Len(carry))

\* The source after that read.
source_after_read(src, sz, carry) ==
    IF sz - Len(carry) <= 0 THEN src ELSE Drop(src, sz - Len(carry))

----------------------------------------------------------------------------
\* Errors. An error is <<kind, n>>: n is the number of the part whose step
\* raised it (0 where no part is involved), which tells two errors of one
\* kind apart.

Err(kind, n) == <<kind, n>>

\* upload_id returned by _create_multipart_upload (the text of UploadId).
NewUploadId == "upload-1"

\* Values of the variables a call does not use.
PutIdle ==
    /\ stream = <<>> /\ length = 0 /\ parallel_upload = FALSE
    /\ requested_part_size = 0
    /\ source = <<>> /\ part_size = 0 /\ part_count = 0
    /\ object_size = 0 /\ uploaded_size = 0 /\ one_byte = <<>>
    /\ stop = FALSE /\ parts = <<>> /\ parallel_tasks = <<>>
    /\ extra_bytes = <<>> /\ part_data = <<>> /\ finished = <<>>

ComposeIdle ==
    /\ sources = <<>> /\ src_i = 0 /\ size = 0 /\ offset = 0
    /\ total_parts = <<>>

CallStart ==
    /\ requests = <<>> /\ raised = NoError /\ result = None
    /\ exc = NoError /\ aborts_failed = FALSE
    /\ part_number = 0 /\ upload_id = None

----------------------------------------------------------------------------
\* The client: buckets, regions, responses, errors and coroutines

Buckets == {"b1", "b2"}
Regions == {"us-east-1", "eu-west-1", "ap-south-1"}

\* The coroutines that call the client concurrently.
Coroutines == {1, 2}

\* An HTTP response as _url_open reads it: the status, the
\* x-amz-bucket-region header (None if absent), whether the content type is
\* application/xml, and the body: None for an empty body, else the Code of
\* an error document or the text of a LocationConstraint document.
Response(status, region, xml, body) ==
    [status |-> status, region |-> region, xml |-> xml, body |-> body]

NoResponse == Response(0, None, FALSE, None)

\* An exception: its class and, for an S3Error, its code.
Exception(type, code) == [type |-> type, code |-> code]

NoException == Exception(None, None)

\* A coroutine outside any call.
IdleCoroutine ==
    [op |-> "idle", pc |-> "idle",
     method |-> None, bucket_name |-> None, object_name |-> None,
     expires |-> Unset, at |-> Unset,
     region |-> None, sent |-> <<>>, response |-> NoResponse,
     exc |-> NoException, raised |-> NoException, returned |-> FALSE]

\* Values of the client's variables where no client call is modelled.
ClientIdle ==
    /\ base_region = None /\ provider = FALSE /\ credentials = 1
    /\ region_map = [b \in Buckets |-> None]
    /\ coro = [p \in Coroutines |-> IdleCoroutine]
    /\ calls = 0

\* A header value: what it was computed as, and of what. Absent stands for
\* a header that is not set (and for Python's None).
Value(kind, of) == [kind |-> kind, of |-> of]

Absent == Value("absent", None)

\* A request whose headers are not modelled.
NoHeaders ==
    [pc |-> "idle", credentials |-> Absent, body |-> None,
     content_md5 |-> Absent, sha256 |-> Absent, token |-> Absent,
     authorization |-> Absent]

HeadersIdle == is_https = FALSE /\ hdr = NoHeaders

\* A client that is not removing objects.
RemoveObjectsIdle ==
    delete_object_list = <<>> /\ objects = <<>> /\ yielded = <<>>

\* A client that is not listing objects. The objects of a bucket are
\* numbered 1..count in listing order; a marker is the number of the last
\* object of a page, and 0 stands for an absent marker (Python's None).
NoListing ==
    [count |-> 0, use_api_v1 |-> FALSE, include_version |-> FALSE,
     start_after |-> 0, continuation_token |-> 0, is_truncated |-> FALSE]

\* A client that is not downloading to a file: the object's data, the file
\* at tmp_file_path and the file at file_path (whether it exists, and its
\* content), the local offset and the content of the response.
NoDownload ==
    [data |-> <<>>, tmp_exists |-> FALSE, tmp_file |-> <<>>,
     file_exists |-> FALSE, file |-> <<>>, offset |-> 0, response |-> <<>>]

\* A client that is neither removing objects, listing them nor downloading.
BulkIdle == RemoveObjectsIdle /\ listing = NoListing /\ download = NoDownload

----------------------------------------------------------------------------
\* Minio.put_object

\* The call as entered: put_object(bucket, object, source, length,
\* part_size = p, parallel_upload). A known length is the size of the data
\* (docstring, line 1539); part_size holds the requested part size until
\* the plan replaces it.
InitPut ==
    /\ call = "put_object"
    /\ pc = "get_part_info"
    /\ CallStart
    /\ ClientIdle
    /\ HeadersIdle
    /\ BulkIdle
    /\ ComposeIdle
    /\ \E n \in 0..MaxStreamLen :
          /\ stream = Bytes(n)
          /\ source = Bytes(n)
          /\ length \in {-1, n}
    /\ requested_part_size \in 0..(MAX_PART_SIZE + 1)
    /\ part_size = requested_part_size
    /\ parallel_upload \in BOOLEAN
    /\ part_count = 0 /\ object_size = 0 /\ uploaded_size = 0
    /\ one_byte = <<>> /\ stop = FALSE /\ parts = <<>>
    /\ parallel_tasks = <<>> /\ extra_bytes = <<>> /\ part_data = <<>>
    /\ finished = <<>>

\* Line 1583: part_size, part_count = get_part_info(length, part_size), and
\* lines 1588-1596. A ValueError of the planner is raised before the try.
PutPlan ==
    /\ call = "put_object" /\ pc = "get_part_info"
    /\ LET plan == get_part_info(length, part_size) IN
       IF plan.ok
       THEN /\ part_size' = plan.part_size
            /\ part_count' = plan.part_count
            /\ object_size' = length
            /\ pc' = "loop"
            /\ UNCHANGED raised
       ELSE /\ raised' = Err("ValueError", 0)
            /\ pc' = "done"
            /\ UNCHANGED <<part_size, part_count, object_size>>
    /\ UNCHANGED <<clientVars, headerVars, bulkVars, call, requests, result, exc, aborts_failed, part_number,
                   upload_id, stream, length, parallel_upload, requested_part_size, source,
                   uploaded_size, one_byte, stop, parts, parallel_tasks,
                   extra_bytes, part_data, finished, composeVars>>

\* A plausible slip of lines 1625-1628: no single-part shortcut, every
\* upload opens a multipart session.
AfterReadAlwaysMultipart(pcount, uid) ==
    IF uid = None THEN "create_multipart_upload" ELSE "upload_part"

\* A plausible slip of line 1630: the session is opened again for every part.
AfterReadRecreate(pcount, uid) ==
    IF pcount = 1 THEN "put_object" ELSE "create_multipart_upload"

\* Where the loop body goes after a part was read (lines 1625-1640).
AfterRead(pcount, uid) ==
    IF pcount = 1 THEN "put_object"
    ELSE IF uid = None THEN "create_multipart_upload"
    ELSE "upload_part"

\* A plausible slip of line 1620: the lookahead byte is not kept.
LookaheadByteDropped(data) == <<>>

\* The lookahead byte kept for the next read (line 1620).
LookaheadByte(data) == SubSeq(data, Len(data), Len(data))

\* A plausible slip of line 1602: the last part is recognised one part late.
IsLastPartLate(number, pcount) == number = pcount + 1

\* Line 1602: `if part_number == part_count`.
IsLastPart(number, pcount) == number = pcount

\* Lines 1599-1623: one pass of `while not stop` up to the part's data. The
\* read may raise (the source fails), which the except clause catches.
ReadPart ==
    /\ call = "put_object" /\ pc = "loop" /\ ~stop
    /\ part_number' = part_number + 1
    /\ \/ /\ exc' = Err("ReadError", part_number')
          /\ pc' = "except"
          /\ UNCHANGED <<part_size, part_count, stop, source, extra_bytes,
                         one_byte, part_data, uploaded_size>>
       \/ /\ part_count > 0
          /\ LET last == IsLastPart(part_number', part_count)
                 ps == IF last THEN object_size - uploaded_size ELSE part_size
                 data == read_part_data(source, ps, extra_bytes)
             IN  /\ part_size' = ps
                 /\ stop' = last
                 /\ source' = source_after_read(source, ps, extra_bytes)
                 /\ part_data' = Take(data, ps)
                 /\ extra_bytes' = Drop(data, ps)
                 /\ uploaded_size' = uploaded_size + Len(Take(data, ps))
                 /\ pc' = AfterRead(part_count, upload_id)
          /\ UNCHANGED <<part_count, one_byte, exc>>
       \/ /\ part_count <= 0
          /\ LET data == read_part_data(source, part_size + 1, one_byte) IN
             /\ source' = source_after_read(source, part_size + 1, one_byte)
             /\ IF Len(data) <= part_size
                THEN /\ part_count' = part_number'
                     /\ stop' = TRUE
                     /\ part_data' = data
                     /\ UNCHANGED one_byte
                ELSE /\ one_byte' = LookaheadByte(data)
                     /\ part_data' = SubSeq(data, 1, Len(data) - 1)
                     /\ UNCHANGED <<part_count, stop>>
             /\ uploaded_size' = uploaded_size + Len(part_data')
             /\ pc' = AfterRead(part_count', upload_id)
          /\ UNCHANGED <<part_size, extra_bytes, exc>>
    /\ UNCHANGED <<clientVars, headerVars, bulkVars, call, requests, raised, result, aborts_failed, upload_id,
                   stream, length, parallel_upload, requested_part_size,
                   object_size, parts,
                   parallel_tasks, finished, composeVars>>

\* Lines 1625-1628: the single-part write, _put_object without query
\* parameters. It is inside the try: its error reaches the except clause.
PutSingle ==
    /\ call = "put_object" /\ pc = "put_object"
    /\ requests' = Append(requests, Request("PutObject", None, 0, part_data))
    /\ \/ /\ result' = "ObjectWriteResult" /\ pc' = "done" /\ UNCHANGED exc
       \/ /\ exc' = Err("PutObjectError", part_number) /\ pc' = "except"
          /\ UNCHANGED result
    /\ UNCHANGED <<clientVars, headerVars, bulkVars, call, raised, aborts_failed, part_number, upload_id,
                   putVars, composeVars>>

\* Lines 1630-1633: upload_id = await _create_multipart_upload(...).
PutCreate ==
    /\ call = "put_object" /\ pc = "create_multipart_upload"
    /\ requests' = Append(requests,
                          Request("CreateMultipartUpload", None, 0, <<>>))
    /\ \/ /\ upload_id' = NewUploadId /\ pc' = "upload_part" /\ UNCHANGED exc
       \/ /\ exc' = Err("CreateMultipartUploadError", part_number)
          /\ pc' = "except"
          /\ UNCHANGED upload_id
    /\ UNCHANGED <<clientVars, headerVars, bulkVars, call, raised, result, aborts_failed, part_number,
                   putVars, composeVars>>

\* A part-upload task created by asyncio.ensure_future (line 1641):
\* "pending" until it sends its request, "sent" until the response, then
\* "ok" or "error".
Task(number, data) == [part_number |-> number, data |-> data, state |-> "pending"]

\* Lines 1635-1644 with parallel_upload false: _upload_part is awaited, and
\* Part(part_number, etag) is appended.
UploadPartSequential ==
    /\ call = "put_object" /\ pc = "upload_part" /\ ~parallel_upload
    /\ requests' = Append(requests,
                          Request("UploadPart", upload_id, part_number, part_data))
    /\ \/ /\ parts' = Append(parts, Part(part_number, part_number))
          /\ pc' = "loop"
          /\ UNCHANGED exc
       \/ /\ exc' = Err("UploadPartError", part_number)
          /\ pc' = "except"
          /\ UNCHANGED parts
    /\ UNCHANGED <<clientVars, headerVars, bulkVars, call, raised, result, aborts_failed, part_number, upload_id,
                   stream, length, parallel_upload, requested_part_size, source, part_size,
                   part_count, object_size, uploaded_size, one_byte, stop,
                   parallel_tasks, extra_bytes, part_data, finished,
                   composeVars>>

\* Lines 1640-1641 with parallel_upload true: the task is submitted and the
\* loop goes on without awaiting it.
UploadPartSubmit ==
    /\ call = "put_object" /\ pc = "upload_part" /\ parallel_upload
    /\ parallel_tasks' = Append(parallel_tasks, Task(part_number, part_data))
    /\ pc' = "loop"
    /\ UNCHANGED <<clientVars, headerVars, bulkVars, call, requests, raised, result, exc, aborts_failed,
                   part_number, upload_id, stream, length, parallel_upload,
                   requested_part_size, source, part_size, part_count, object_size, uploaded_size,
                   one_byte, stop, parts, extra_bytes, part_data, finished,
                   composeVars>>

\* A plausible slip of lines 1660-1665: the tasks submitted are cancelled
\* when the call ends, so a task not yet started never sends.
TaskSendUnlessCancelled(i) ==
    /\ call = "put_object"
    /\ pc # "done"
    /\ i \in 1..Len(parallel_tasks)
    /\ parallel_tasks[i].state = "pending"
    /\ requests' = Append(requests,
                          Request("UploadPart", upload_id,
                                  parallel_tasks[i].part_number,
                                  parallel_tasks[i].data))
    /\ parallel_tasks' = [parallel_tasks EXCEPT ![i].state = "sent"]
    /\ UNCHANGED <<clientVars, headerVars, bulkVars, call, pc, raised, result, exc, aborts_failed, part_number,
                   upload_id, stream, length, parallel_upload, requested_part_size, source,
                   part_size, part_count, object_size, uploaded_size,
                   one_byte, stop, parts, extra_bytes, part_data, finished,
                   composeVars>>

\* Lines 1521-1523, 1509-1519: a submitted task sends its UploadPart
\* request. Tasks run on the event loop whenever the call is suspended, and
\* nothing cancels them: they also run after the call has ended.
TaskSend(i) ==
    /\ call = "put_object"
    /\ i \in 1..Len(parallel_tasks)
    /\ parallel_tasks[i].state = "pending"
    /\ requests' = Append(requests,
                          Request("UploadPart", upload_id,
                                  parallel_tasks[i].part_number,
                                  parallel_tasks[i].data))
    /\ parallel_tasks' = [parallel_tasks EXCEPT ![i].state = "sent"]
    /\ UNCHANGED <<clientVars, headerVars, bulkVars, call, pc, raised, result, exc, aborts_failed, part_number,
                   upload_id, stream, length, parallel_upload, requested_part_size, source,
                   part_size, part_count, object_size, uploaded_size,
                   one_byte, stop, parts, extra_bytes, part_data, finished,
                   composeVars>>

\* The response of a task's request arrives: the task returns
\* (part_number, etag) or raises.
TaskFinish(i) ==
    /\ call = "put_object"
    /\ i \in 1..Len(parallel_tasks)
    /\ parallel_tasks[i].state = "sent"
    /\ \E outcome \in {"ok", "error"} :
          parallel_tasks' = [parallel_tasks EXCEPT ![i].state = outcome]
    /\ finished' = Append(finished, parallel_tasks[i].part_number)
    /\ UNCHANGED <<clientVars, headerVars, bulkVars, call, pc, requests, raised, result, exc, aborts_failed,
                   part_number, upload_id, stream, length, parallel_upload,
                   requested_part_size, source, part_size, part_count, object_size, uploaded_size,
                   one_byte, stop, parts, extra_bytes, part_data,
                   composeVars>>

\* A plausible slip of line 1647: the results are taken as the tasks finish
\* (asyncio.as_completed in place of asyncio.gather).
GatherResultsAsCompleted(tasks, done_order) ==
    [i \in 1..Len(tasks) |-> Part(done_order[i], done_order[i])]

\* asyncio.gather(*parallel_tasks): the results in the order of the tasks
\* given to it, whatever order they finished in.
GatherResults(tasks, done_order) ==
    [i \in 1..Len(tasks) |-> Part(tasks[i].part_number, tasks[i].part_number)]

\* A plausible slip of line 1647: gather(..., return_exceptions=True), which
\* returns once every task has finished, failed ones included.
GatherReturnExceptions ==
    /\ call = "put_object" /\ pc = "loop" /\ stop
    /\ parallel_tasks # <<>>
    /\ \/ /\ \A i \in 1..Len(parallel_tasks) :
                parallel_tasks[i].state \in {"ok", "error"}
          /\ parts' = parts \o GatherResults(parallel_tasks, finished)
          /\ pc' = "complete_multipart_upload"
          /\ UNCHANGED exc
       \/ /\ \E i \in 1..Len(parallel_tasks) :
                /\ parallel_tasks[i].state = "error"
                /\ exc' = Err("UploadPartError", parallel_tasks[i].part_number)
          /\ pc' = "except"
          /\ UNCHANGED parts
    /\ UNCHANGED <<clientVars, headerVars, bulkVars, call, requests, raised, result, aborts_failed, part_number,
                   upload_id, stream, length, parallel_upload, requested_part_size, source,
                   part_size, part_count, object_size, uploaded_size,
                   one_byte, stop, parallel_tasks, extra_bytes, part_data,
                   finished, composeVars>>

\* Lines 1646-1647: await asyncio.gather(*parallel_tasks) returns once every
\* task has returned, or raises the error of a failed task as soon as there
\* is one.
Gather ==
    /\ call = "put_object" /\ pc = "loop" /\ stop
    /\ parallel_tasks # <<>>
    /\ \/ /\ \A i \in 1..Len(parallel_tasks) : parallel_tasks[i].state = "ok"
          /\ parts' = parts \o GatherResults(parallel_tasks, finished)
          /\ pc' = "complete_multipart_upload"
          /\ UNCHANGED exc
       \/ /\ \E i \in 1..Len(parallel_tasks) :
                /\ parallel_tasks[i].state = "error"
                /\ exc' = Err("UploadPartError", parallel_tasks[i].part_number)
          /\ pc' = "except"
          /\ UNCHANGED parts
    /\ UNCHANGED <<clientVars, headerVars, bulkVars, call, requests, raised, result, aborts_failed, part_number,
                   upload_id, stream, length, parallel_upload, requested_part_size, source,
                   part_size, part_count, object_size, uploaded_size,
                   one_byte, stop, parallel_tasks, extra_bytes, part_data,
                   finished, composeVars>>

\* _complete_multipart_upload (lines 1453-1474): the body lists the parts
\* in the order of the list it is given.
CompleteBody(ps) == ps

\* A plausible slip of lines 1649-1665: the abort in a `finally` clause, so
\* that the call passes through it after a completion too.
PutCompleteThenCleanup ==
    /\ call = "put_object"
    /\ \/ pc = "complete_multipart_upload"
       \/ pc = "loop" /\ stop /\ parallel_tasks = <<>>
    /\ requests' = Append(requests,
                          Request("CompleteMultipartUpload", upload_id, 0,
                                  CompleteBody(parts)))
    /\ \/ /\ result' = "ObjectWriteResult" /\ pc' = "except" /\ UNCHANGED exc
       \/ /\ exc' = Err("CompleteMultipartUploadError", 0) /\ pc' = "except"
          /\ UNCHANGED result
    /\ UNCHANGED <<clientVars, headerVars, bulkVars, call, raised, aborts_failed, part_number, upload_id,
                   putVars, composeVars>>

\* Lines 1649-1659: the completion request and the call's result.
PutComplete ==
    /\ call = "put_object"
    /\ \/ pc = "complete_multipart_upload"
       \/ pc = "loop" /\ stop /\ parallel_tasks = <<>>
    /\ requests' = Append(requests,
                          Request("CompleteMultipartUpload", upload_id, 0,
                                  CompleteBody(parts)))
    /\ \/ /\ result' = "ObjectWriteResult" /\ pc' = "done" /\ UNCHANGED exc
       \/ /\ exc' = Err("CompleteMultipartUploadError", 0) /\ pc' = "except"
          /\ UNCHANGED result
    /\ UNCHANGED <<clientVars, headerVars, bulkVars, call, raised, aborts_failed, part_number, upload_id,
                   putVars, composeVars>>

\* What the except clause raises (lines 1660-1665, 1437-1442): the abort
\* request is awaited inside the clause, so its own error leaves the clause
\* in place of `raise exc`.
RaisedAfterAbort(caught, abort_ok) ==
    IF abort_ok THEN caught ELSE Err("AbortMultipartUploadError", 0)

\* A plausible slip of lines 1661 and 1439: the abort sent without the test
\* of upload_id.
ExceptAbortsAlways ==
    /\ call \in {"put_object", "compose_object"} /\ pc = "except"
    /\ IF TRUE
       THEN /\ requests' = Append(requests,
                                  Request("AbortMultipartUpload", upload_id, 0, <<>>))
            /\ \E abort_ok \in BOOLEAN :
                  /\ raised' = RaisedAfterAbort(exc, abort_ok)
                  /\ aborts_failed' = (aborts_failed \/ ~abort_ok)
       ELSE /\ raised' = exc
            /\ UNCHANGED <<requests, aborts_failed>>
    /\ pc' = "done"
    /\ UNCHANGED <<clientVars, headerVars, bulkVars, call, result, exc, part_number, upload_id, putVars,
                   composeVars>>

\* Lines 1660-1665 and 1437-1442: `except Exception as exc`.
Except ==
    /\ call \in {"put_object", "compose_object"} /\ pc = "except"
    /\ IF upload_id # None
       THEN /\ requests' = Append(requests,
                                  Request("AbortMultipartUpload", upload_id, 0, <<>>))
            /\ \E abort_ok \in BOOLEAN :
                  /\ raised' = RaisedAfterAbort(exc, abort_ok)
                  /\ aborts_failed' = (aborts_failed \/ ~abort_ok)
       ELSE /\ raised' = exc
            /\ UNCHANGED <<requests, aborts_failed>>
    /\ pc' = "done"
    /\ UNCHANGED <<clientVars, headerVars, bulkVars, call, result, exc, part_number, upload_id, putVars,
                   composeVars>>

NextPut ==
    \/ PutPlan
    \/ ReadPart
    \/ PutSingle
    \/ PutCreate
    \/ UploadPartSequential
    \/ UploadPartSubmit
    \/ \E i \in 1..Len(parallel_tasks) : TaskSend(i)
    \/ \E i \in 1..Len(parallel_tasks) : TaskFinish(i)
    \/ Gather
    \/ PutComplete
    \/ Except

SpecPut == InitPut /\ [][NextPut]_vars

----------------------------------------------------------------------------
\* The part planner on its own: get_part_info as put_object calls it, over
\* every size up to MaxPlanSize.

InitPlan ==
    /\ call = "put_object"
    /\ pc = "get_part_info"
    /\ CallStart
    /\ ClientIdle
    /\ HeadersIdle
    /\ BulkIdle
    /\ ComposeIdle
    /\ stream = <<>> /\ source = <<>>
    /\ length \in (-1)..MaxPlanSize
    /\ requested_part_size \in 0..(MAX_PART_SIZE + 1)
    /\ part_size = requested_part_size
    /\ parallel_upload = FALSE
    /\ part_count = 0 /\ object_size = 0 /\ uploaded_size = 0
    /\ one_byte = <<>> /\ stop = FALSE /\ parts = <<>>
    /\ parallel_tasks = <<>> /\ extra_bytes = <<>> /\ part_data = <<>>
    /\ finished = <<>>

NextPlan == PutPlan

SpecPlan == InitPlan /\ [][NextPlan]_vars

----------------------------------------------------------------------------
\* Minio.compose_object and Minio._calc_part_count

\* A ComposeSource after the size lookup: object_size is stat.size, offset
\* and length are the caller's (Unset for None).
ComposeSource(osize, off, len) ==
    [object_size |-> osize, offset |-> off, length |-> len]

\* Lines 1215-1219 and 1379-1383: the size a source contributes.
EffectiveSize(src) ==
    IF src.length # Unset THEN src.length
    ELSE IF src.offset # Unset THEN src.object_size - src.offset
    ELSE src.object_size

\* The sources of one effective size e that pass ComposeSource's own
\* validation (offset and offset + length within the object): the whole
\* object, its tail from offset 1, its first e bytes, e bytes from offset 1.
SourcesOfSize(e) ==
    { ComposeSource(e, Unset, Unset),
      ComposeSource(e + 1, 1, Unset),
      ComposeSource(e + 1, Unset, e),
      ComposeSource(e + 2, 1, e) }

SourceShapes == UNION { SourcesOfSize(e) : e \in 1..MaxSourceSize }

SourceLists ==
    UNION { [1..n -> SourceShapes] : n \in 1..MaxSources }

InitCompose ==
    /\ call = "compose_object"
    /\ pc = "calc_part_count"
    /\ CallStart
    /\ ClientIdle
    /\ HeadersIdle
    /\ BulkIdle
    /\ PutIdle
    /\ sources \in SourceLists
    /\ src_i = 0 /\ size = 0 /\ offset = 0 /\ total_parts = <<>>

\* A plausible slip of lines 1221-1225: the test `i != len(sources)` inverted.
TooSmallInverted(sz, i, n) == sz < MIN_PART_SIZE /\ n # 1 /\ i = n

\* Lines 1221-1225 and 1247-1251: a size below MIN_PART_SIZE of a source that
\* is neither the only one nor the last.
TooSmall(sz, i, n) == sz < MIN_PART_SIZE /\ n # 1 /\ i # n

\* Lines 1240-1246: count and last part size of a source above MAX_PART_SIZE.
SplitCount(sz) ==
    IF sz - (sz \div MAX_PART_SIZE) * MAX_PART_SIZE > 0
    THEN sz \div MAX_PART_SIZE + 1
    ELSE sz \div MAX_PART_SIZE

SplitLastPartSize(sz) ==
    IF sz - (sz \div MAX_PART_SIZE) * MAX_PART_SIZE > 0
    THEN sz - (sz \div MAX_PART_SIZE) * MAX_PART_SIZE
    ELSE MAX_PART_SIZE

\* Lines 1232-1233: the destination size summed so far is above the limit.
ObjectTooLarge(total) == total > MAX_MULTIPART_OBJECT_SIZE

\* A plausible slip of line 1265: the limit taken one too high.
TooManyPartsOffByOne(count) == count > MAX_MULTIPART_COUNT + 1

\* Line 1265: the plan has more parts than one multipart upload may have.
TooManyParts(count) == count > MAX_MULTIPART_COUNT

\* A plausible slip of lines 1357-1361: the test of the offset inverted.
IsPlainCopyInverted(count, src) ==
    count = 1 /\ src.offset # Unset /\ src.length = Unset

\* Lines 1357-1361: a plan of one part whose first source names neither an
\* offset nor a length is handed to copy_object.
IsPlainCopy(count, src) ==
    count = 1 /\ src.offset = Unset /\ src.length = Unset

\* Lines 1192-1199: what copy_object returns, the etag and last-modified time
\* of the copy result.
CopyObjectResult == "ObjectWriteResult of CopyObjectResult"

\* Lines 1206-1263: one pass of the loop of _calc_part_count: the size
\* lookup of source i (a HEAD on the source, which may fail), then the
\* checks. An error leaves compose_object at once: line 1356 is outside the
\* try.
CalcPartCount ==
    /\ call = "compose_object" /\ pc = "calc_part_count"
    /\ src_i < Len(sources)
    /\ LET i == src_i + 1
           sz == EffectiveSize(sources[i])
       IN
       /\ src_i' = i
       /\ requests' = Append(requests, Request("StatObject", None, i, <<>>))
       /\ \/ /\ raised' = Err("StatObjectError", i)
             /\ pc' = "done"
             /\ UNCHANGED <<object_size, part_count>>
          \/ IF TooSmall(sz, i, Len(sources))
             THEN /\ raised' = Err("ValueError", i)
                  /\ pc' = "done"
                  /\ UNCHANGED <<object_size, part_count>>
             ELSE /\ object_size' = object_size + sz
                  /\ IF ObjectTooLarge(object_size')
                     THEN /\ raised' = Err("ValueError", i)
                          /\ pc' = "done"
                          /\ UNCHANGED part_count
                     ELSE IF sz > MAX_PART_SIZE
                     THEN IF TooSmall(SplitLastPartSize(sz), i, Len(sources))
                          THEN /\ raised' = Err("ValueError", i)
                               /\ pc' = "done"
                               /\ UNCHANGED part_count
                          ELSE /\ part_count' = part_count + SplitCount(sz)
                               /\ UNCHANGED <<raised, pc>>
                     ELSE /\ part_count' = part_count + 1
                          /\ UNCHANGED <<raised, pc>>
    /\ UNCHANGED <<clientVars, headerVars, bulkVars, call, result, exc, aborts_failed, part_number, upload_id,
                   putLocals, sources, size, offset, total_parts>>

\* Lines 1265-1272 and 1357-1361: the count check that ends
\* _calc_part_count, and the choice between a plain copy and a multipart
\* session.
CalcPartCountEnd ==
    /\ call = "compose_object" /\ pc = "calc_part_count"
    /\ src_i = Len(sources)
    /\ IF TooManyParts(part_count)
       THEN /\ raised' = Err("ValueError", 0)
            /\ pc' = "done"
       ELSE /\ pc' = IF IsPlainCopy(part_count, sources[1])
                     THEN "copy_object"
                     ELSE "create_multipart_upload"
            /\ UNCHANGED raised
    /\ UNCHANGED <<clientVars, headerVars, bulkVars, call, requests, result, exc, aborts_failed, part_number,
                   upload_id, object_size, part_count, putLocals,
                   composeVars>>

\* Lines 1362-1368 with copy_object, lines 1148-1199: copy_object looks the
\* size up again and, the size being at most MAX_PART_SIZE, sends one
\* server-side copy PUT. Its errors leave compose_object as they are.
ComposeCopyObject ==
    /\ call = "compose_object" /\ pc = "copy_object"
    /\ \/ /\ requests' = Append(requests, Request("StatObject", None, 1, <<>>))
          /\ raised' = Err("StatObjectError", 1)
          /\ UNCHANGED result
       \/ /\ requests' = requests \o
                 << Request("StatObject", None, 1, <<>>),
                    Request("CopyObject", None, 0, [source |-> 1, range |-> <<>>]) >>
          /\ \/ /\ result' = CopyObjectResult /\ UNCHANGED raised
             \/ /\ raised' = Err("CopyObjectError", 0) /\ UNCHANGED result
    /\ pc' = "done"
    /\ UNCHANGED <<clientVars, headerVars, bulkVars, call, exc, aborts_failed, part_number, upload_id,
                   object_size, part_count, putLocals, composeVars>>

\* Lines 1370-1377: the multipart session is opened before the try, so a
\* failing create leaves compose_object without reaching the except clause.
ComposeCreate ==
    /\ call = "compose_object" /\ pc = "create_multipart_upload"
    /\ requests' = Append(requests,
                          Request("CreateMultipartUpload", None, 0, <<>>))
    /\ \/ /\ upload_id' = NewUploadId
          /\ pc' = "sources"
          /\ src_i' = 0
          /\ UNCHANGED raised
       \/ /\ raised' = Err("CreateMultipartUploadError", 0)
          /\ pc' = "done"
          /\ UNCHANGED <<upload_id, src_i>>
    /\ UNCHANGED <<clientVars, headerVars, bulkVars, call, result, exc, aborts_failed, part_number, object_size,
                   part_count, putLocals, sources, size, offset, total_parts>>

\* Python's `src.offset or 0` (line 1384).
OffsetOrZero(src) == IF src.offset = Unset THEN 0 ELSE src.offset

\* Lines 1378-1386: `for src in sources`, the size and offset of the next
\* source; after the last source, the completion.
ComposeNextSource ==
    /\ call = "compose_object" /\ pc = "sources"
    /\ IF src_i = Len(sources)
       THEN /\ pc' = "complete_multipart_upload"
            /\ UNCHANGED <<src_i, size, offset>>
       ELSE /\ src_i' = src_i + 1
            /\ size' = EffectiveSize(sources[src_i'])
            /\ offset' = OffsetOrZero(sources[src_i'])
            /\ pc' = IF size' <= MAX_PART_SIZE THEN "copy_part" ELSE "split"
    /\ UNCHANGED <<clientVars, headerVars, bulkVars, call, requests, raised, result, exc, aborts_failed,
                   part_number, upload_id, object_size, part_count, putLocals,
                   sources, total_parts>>

\* An x-amz-copy-source-range header "bytes=first-last": first and last are
\* the positions of the first and the last byte copied (RFC 7233); <<>>
\* stands for no header, the whole source.
CopyRange(first, last) == <<first, last>>

\* Lines 1389-1396: the range header of a source that fits one part.
WholeSourceRange(src, off, sz) ==
    IF src.length # Unset THEN CopyRange(off, off + src.length - 1)
    ELSE IF src.offset # Unset THEN CopyRange(off, off + sz - 1)
    ELSE <<>>

\* Lines 1387-1405: a source of at most MAX_PART_SIZE bytes is one copy-part
\* request.
ComposeCopyPart ==
    /\ call = "compose_object" /\ pc = "copy_part"
    /\ part_number' = part_number + 1
    /\ requests' = Append(requests,
           Request("UploadPartCopy", upload_id, part_number',
                   [source |-> src_i,
                    range |-> WholeSourceRange(sources[src_i], offset, size)]))
    /\ \/ /\ total_parts' = Append(total_parts, Part(part_number', part_number'))
          /\ pc' = "sources"
          /\ UNCHANGED exc
       \/ /\ exc' = Err("UploadPartCopyError", part_number')
          /\ pc' = "except"
          /\ UNCHANGED total_parts
    /\ UNCHANGED <<clientVars, headerVars, bulkVars, call, raised, result, aborts_failed, upload_id, object_size,
                   part_count, putLocals, sources, src_i, size, offset>>

\* A plausible slip of lines 1408-1411: end_bytes taken as the position of
\* the last byte, the size still reduced by end_bytes - start_bytes.
SplitEndBytesInclusive(start_bytes, sz) ==
    IF sz < MAX_PART_SIZE THEN start_bytes + sz - 1
    ELSE start_bytes + MAX_PART_SIZE - 1

\* Lines 1408-1411: end_bytes of one pass of the split loop.
SplitEndBytes(start_bytes, sz) ==
    IF sz < MAX_PART_SIZE THEN start_bytes + sz ELSE start_bytes + MAX_PART_SIZE

\* Lines 1406-1425: one pass of `while size > 0` for a source above
\* MAX_PART_SIZE.
ComposeSplitPart ==
    /\ call = "compose_object" /\ pc = "split"
    /\ size > 0
    /\ part_number' = part_number + 1
    /\ LET start_bytes == offset
           end_bytes == SplitEndBytes(start_bytes, size)
       IN
       /\ requests' = Append(requests,
              Request("UploadPartCopy", upload_id, part_number',
                      [source |-> src_i,
                       range |-> CopyRange(start_bytes, end_bytes)]))
       /\ \/ /\ total_parts' = Append(total_parts,
                                      Part(part_number', part_number'))
             /\ offset' = start_bytes
             /\ size' = size - (end_bytes - start_bytes)
             /\ pc' = IF size' > 0 THEN "split" ELSE "sources"
             /\ UNCHANGED exc
          \/ /\ exc' = Err("UploadPartCopyError", part_number')
             /\ pc' = "except"
             /\ UNCHANGED <<total_parts, offset, size>>
    /\ UNCHANGED <<clientVars, headerVars, bulkVars, call, raised, result, aborts_failed, upload_id, object_size,
                   part_count, putLocals, sources, src_i>>

\* Lines 1426-1436: the completion request and the call's result.
ComposeComplete ==
    /\ call = "compose_object" /\ pc = "complete_multipart_upload"
    /\ requests' = Append(requests,
                          Request("CompleteMultipartUpload", upload_id, 0,
                                  CompleteBody(total_parts)))
    /\ \/ /\ result' = "ObjectWriteResult" /\ pc' = "done" /\ UNCHANGED exc
       \/ /\ exc' = Err("CompleteMultipartUploadError", 0) /\ pc' = "except"
          /\ UNCHANGED result
    /\ UNCHANGED <<clientVars, headerVars, bulkVars, call, raised, aborts_failed, part_number, upload_id,
                   putVars, composeVars>>

NextCompose ==
    \/ CalcPartCount
    \/ CalcPartCountEnd
    \/ ComposeCopyObject
    \/ ComposeCreate
    \/ ComposeNextSource
    \/ ComposeCopyPart
    \/ ComposeSplitPart
    \/ ComposeComplete
    \/ Except

SpecCompose == InitCompose /\ [][NextCompose]_vars

----------------------------------------------------------------------------
\* The client's transport: Minio._url_open, _execute, _get_region and
\* make_bucket. Every await is a point where another coroutine may run; one
\* action is the code between two awaits on a response.

\* Most calls begun in one run.
MaxCalls == 3
\* Number of different credentials the provider hands out in one run.
MaxCredentials == 2

\* Line 210: the request of a client without provider is not signed.
Unsigned == 0

RedirectStatuses == {301, 307, 400}
\* Other failure statuses the model's servers answer a HEAD with.
OtherStatuses == {404, 500}

\* Codes of the error documents a server sends.
BodyCodes == {"NoSuchBucket", "AccessDenied"}

\* Texts of the LocationConstraint document of GetBucketLocation.
LocationTexts == {"", "EU", "ap-south-1"}

\* Responses to a HEAD request: no body, with or without the
\* x-amz-bucket-region header.
HeadResponses ==
    {Response(200, None, FALSE, None)}
    \cup {Response(s, r, FALSE, None) :
              s \in RedirectStatuses, r \in {None, "eu-west-1"}}
    \cup {Response(s, None, FALSE, None) : s \in OtherStatuses}

\* Failure responses to a request other than HEAD: one that is not XML, with
\* and without text, an empty XML one, and an error document.
BodyFailures ==
    {Response(404, None, FALSE, None), Response(404, None, FALSE, "AccessDenied")}
    \cup {Response(404, None, TRUE, c) : c \in {None} \cup BodyCodes}

BodyResponses == {Response(200, None, TRUE, None)} \cup BodyFailures

LocationResponses ==
    {Response(200, None, TRUE, t) : t \in LocationTexts} \cup BodyFailures

\* Lines 153-157: the code of a status.
StatusCode(status) ==
    CASE status = 301 -> "PermanentRedirect"
      [] status = 307 -> "Redirect"
      [] status = 400 -> "BadRequest"
      [] OTHER -> None

\* A plausible slip of lines 162-166: only a 301 is retried.
HandleRedirectResponseOnly301(method, bucket_name, response, retry) ==
    IF /\ retry /\ response.region # None /\ method = "HEAD"
       /\ bucket_name # None /\ region_map[bucket_name] # None
       /\ response.status = 301
    THEN "RetryHead"
    ELSE StatusCode(response.status)

\* Lines 146-168: _handle_redirect_response, the code it returns.
HandleRedirectResponse(method, bucket_name, response, retry) ==
    IF /\ retry /\ response.region # None /\ method = "HEAD"
       /\ bucket_name # None /\ region_map[bucket_name] # None
    THEN "RetryHead"
    ELSE StatusCode(response.status)

\* Lines 252-287: the code error_map gives a response without error
\* document (status 409 apart, see UrlOpenError).
ErrorMapCode(method, bucket_name, object_name, response) ==
    CASE response.status \in RedirectStatuses ->
             HandleRedirectResponse(method, bucket_name, response, TRUE)
      [] response.status = 403 -> "AccessDenied"
      [] response.status = 404 ->
             IF object_name # None THEN "NoSuchKey"
             ELSE IF bucket_name # None THEN "NoSuchBucket"
             ELSE "ResourceNotFound"
      [] response.status \in {405, 501} -> "MethodNotAllowed"
      [] OTHER -> None

\* A plausible slip of lines 236-250: the body parsed as an error document
\* before the content type is looked at.
UrlOpenErrorParsedFirst(method, bucket_name, object_name, response) ==
    IF response.status \in {200, 204, 206} THEN NoException
    ELSE IF response.body # None THEN Exception("S3Error", response.body)
    ELSE IF method # "HEAD" THEN Exception("InvalidResponseError", None)
    ELSE IF response.status = 409 THEN Exception("ValueError", None)
    ELSE LET code == ErrorMapCode(method, bucket_name, object_name, response)
         IN  IF code = None THEN Exception("ServerError", None)
             ELSE Exception("S3Error", code)

\* Lines 232-303: the exception _url_open raises for a response,
\* NoException for a success. The entry of error_map for 409 is a tuple of
\* one element (the comma of line 277), so `code, message = func()` raises
\* ValueError.
UrlOpenError(method, bucket_name, object_name, response) ==
    IF response.status \in {200, 204, 206} THEN NoException
    ELSE IF method # "HEAD" /\ ~response.xml
    THEN Exception("InvalidResponseError", None)
    ELSE IF response.body = None /\ method # "HEAD"
    THEN Exception("InvalidResponseError", None)
    ELSE IF response.body # None THEN Exception("S3Error", response.body)
    ELSE IF response.status = 409 THEN Exception("ValueError", None)
    ELSE LET code == ErrorMapCode(method, bucket_name, object_name, response)
         IN  IF code = None THEN Exception("ServerError", None)
             ELSE Exception("S3Error", code)

\* A plausible slip of lines 305-306: the entry never dropped.
EvictNothing(error, bucket_name) == region_map

\* A plausible slip of lines 305-306: the entry dropped on every error.
EvictOnAnyError(error, bucket_name) ==
    IF error # NoException /\ bucket_name # None
    THEN [region_map EXCEPT ![bucket_name] = None]
    ELSE region_map

\* A plausible slip of lines 305-306: RetryHead left out of the list.
EvictOnNoSuchBucketOnly(error, bucket_name) ==
    IF error.code = "NoSuchBucket" /\ bucket_name # None
    THEN [region_map EXCEPT ![bucket_name] = None]
    ELSE region_map

\* Lines 305-306: the region cache after _url_open raised `error`.
EvictOnError(error, bucket_name) ==
    IF error.code \in {"NoSuchBucket", "RetryHead"} /\ bucket_name # None
    THEN [region_map EXCEPT ![bucket_name] = None]
    ELSE region_map

\* A plausible slip of line 210: the credentials of the constructor are
\* kept for every request.
RetrieveAtConstruction == IF provider THEN 1 ELSE Unsigned

\* Line 210: the credentials _url_open signs this request with.
Retrieve == IF provider THEN credentials ELSE Unsigned

\* Lines 210-230: the request _url_open sends: what for ("location" for
\* GetBucketLocation), and the region and the credentials of its signature.
Sent(op, method, bucket_name, region) ==
    [op |-> op, method |-> method, bucket_name |-> bucket_name,
     region |-> region, credentials |-> Retrieve]

\* A plausible slip of lines 373-377: the default region of an anonymous
\* client tested before the constructor's region.
get_region_default_first(bucket_name) ==
    IF bucket_name = None \/ ~provider THEN "us-east-1"
    ELSE IF base_region # None THEN base_region
    ELSE region_map[bucket_name]

\* Lines 362-381 with region = None, as every caller passes it:
\* _get_region up to the lookup; None when the lookup is needed.
get_region(bucket_name) ==
    IF base_region # None THEN base_region
    ELSE IF bucket_name = None \/ ~provider THEN "us-east-1"
    ELSE region_map[bucket_name]

\* A plausible slip of lines 392-397: "EU" taken literally.
MapLocationLiteral(text) == IF text = "" THEN "us-east-1" ELSE text

\* Lines 392-397: the region of a LocationConstraint text.
MapLocation(text) ==
    IF text = "" THEN "us-east-1"
    ELSE IF text = "EU" THEN "eu-west-1"
    ELSE text

\* A plausible slip of lines 347-354: the error of the replay raised as it is.
ReplayErrorUnmapped(method, bucket_name, error, response) == error

\* Lines 332-334 and 347-354: what _execute raises for an error of
\* _url_open that it does not replay.
ReplayError(method, bucket_name, error, response) ==
    IF error.type = "S3Error" /\ error.code = "RetryHead"
    THEN Exception("S3Error",
                   HandleRedirectResponse(method, bucket_name, response, FALSE))
    ELSE error

\* Line 513: the region make_bucket creates the bucket in.
MakeBucketLocation(location) ==
    IF base_region # None THEN base_region
    ELSE IF location # None THEN location
    ELSE "us-east-1"

\* The calls of _execute: bucket_exists, list_objects and list_buckets
\* stand for all of them.
ExecuteArgs ==
    {<<"HEAD", b, None>> : b \in Buckets}
    \cup {<<"GET", "b1", None>>, <<"GET", None, None>>}

\* The locations make_bucket is called with.
Locations == {None, "eu-west-1"}

InitClient ==
    /\ call = "client"
    /\ pc = "idle"
    /\ CallStart
    /\ PutIdle
    /\ ComposeIdle
    /\ base_region \in {None, "ap-south-1"}
    /\ provider \in BOOLEAN
    /\ credentials = 1
    /\ region_map = [b \in Buckets |-> None]
    /\ coro = [p \in Coroutines |-> IdleCoroutine]
    /\ calls = 0
    /\ HeadersIdle
    /\ BulkIdle

\* A coroutine may begin a call.
MayCall(p) == coro[p].pc \in {"idle", "done"} /\ calls < MaxCalls

\* The coroutine's state as a call begins.
BeginCall(op, method, bucket_name, object_name) ==
    [IdleCoroutine EXCEPT !.op = op, !.method = method,
                          !.bucket_name = bucket_name,
                          !.object_name = object_name]

\* Lines 320-331 and 356-389: _execute up to its first await on a response:
\* the region is resolved without lookup and the request is sent, or the
\* GetBucketLocation request is sent.
Execute(p, method, bucket_name, object_name) ==
    /\ call = "client"
    /\ MayCall(p)
    /\ calls' = calls + 1
    /\ LET region == get_region(bucket_name)
           begun == BeginCall("_execute", method, bucket_name, object_name)
       IN  IF region # None
           THEN coro' = [coro EXCEPT ![p] =
                    [begun EXCEPT
                        !.region = region,
                        !.sent = <<Sent("request", method, bucket_name, region)>>,
                        !.pc = "attempt1"]]
           ELSE coro' = [coro EXCEPT ![p] =
                    [begun EXCEPT
                        !.sent = <<Sent("location", "GET", bucket_name,
                                        "us-east-1")>>,
                        !.pc = "location"]]
    /\ UNCHANGED <<objectVars, headerVars, bulkVars, base_region, provider, credentials, region_map>>

\* Lines 384-400 and 322-331: the response to GetBucketLocation. A success
\* is stored in the region cache and the request of _execute is sent; an
\* error leaves _execute, _get_region being called outside its try.
LocationResponse(p, response) ==
    /\ call = "client"
    /\ coro[p].pc = "location"
    /\ LET c == coro[p]
           error == UrlOpenError("GET", c.bucket_name, None, response)
           got == [c EXCEPT !.response = response, !.exc = error]
       IN  IF error = NoException
           THEN LET region == MapLocation(response.body) IN
                /\ region_map' = [region_map EXCEPT ![c.bucket_name] = region]
                /\ coro' = [coro EXCEPT ![p] =
                       [got EXCEPT
                           !.region = region,
                           !.sent = Append(c.sent, Sent("request", c.method,
                                                        c.bucket_name, region)),
                           !.pc = "attempt1"]]
           ELSE /\ region_map' = EvictOnError(error, c.bucket_name)
                /\ coro' = [coro EXCEPT ![p] =
                               [got EXCEPT !.raised = error, !.pc = "done"]]
    /\ UNCHANGED <<objectVars, headerVars, bulkVars, base_region, provider, credentials, calls>>

\* A plausible slip of lines 337-346: the replay sent for the region the
\* response names.
ExecuteResponseFollowsRegion(p, response) ==
    /\ call = "client"
    /\ coro[p].pc \in {"attempt1", "attempt2"}
    /\ LET c == coro[p]
           error == UrlOpenError(c.method, c.bucket_name, c.object_name, response)
           got == [c EXCEPT !.response = response, !.exc = error]
       IN
       /\ region_map' = EvictOnError(error, c.bucket_name)
       /\ IF error = NoException
          THEN coro' = [coro EXCEPT ![p] =
                           [got EXCEPT !.returned = TRUE, !.pc = "done"]]
          ELSE IF c.pc = "attempt1" /\ error = Exception("S3Error", "RetryHead")
          THEN coro' = [coro EXCEPT ![p] =
                   [got EXCEPT
                       !.sent = Append(c.sent, Sent("request", c.method,
                                                    c.bucket_name, response.region)),
                       !.pc = "attempt2"]]
          ELSE coro' = [coro EXCEPT ![p] =
                   [got EXCEPT
                       !.raised = ReplayError(c.method, c.bucket_name, error,
                                              response),
                       !.pc = "done"]]
    /\ UNCHANGED <<objectVars, headerVars, bulkVars, base_region, provider, credentials, calls>>

\* A plausible slip of lines 332-334: every S3Error of the first attempt is
\* answered with a second one.
ExecuteResponseRetriesAnyError(p, response) ==
    /\ call = "client"
    /\ coro[p].pc \in {"attempt1", "attempt2"}
    /\ LET c == coro[p]
           error == UrlOpenError(c.method, c.bucket_name, c.object_name, response)
           got == [c EXCEPT !.response = response, !.exc = error]
       IN
       /\ region_map' = EvictOnError(error, c.bucket_name)
       /\ IF error = NoException
          THEN coro' = [coro EXCEPT ![p] =
                           [got EXCEPT !.returned = TRUE, !.pc = "done"]]
          ELSE IF c.pc = "attempt1" /\ error.type = "S3Error"
          THEN coro' = [coro EXCEPT ![p] =
                   [got EXCEPT
                       !.sent = Append(c.sent, Sent("request", c.method,
                                                    c.bucket_name, c.region)),
                       !.pc = "attempt2"]]
          ELSE coro' = [coro EXCEPT ![p] =
                   [got EXCEPT
                       !.raised = ReplayError(c.method, c.bucket_name, error,
                                              response),
                       !.pc = "done"]]
    /\ UNCHANGED <<objectVars, headerVars, bulkVars, base_region, provider, credentials, calls>>

\* Lines 230-308 and 322-354: the response to the request of _execute or to
\* its replay. A RetryHead of the first attempt is caught and the request
\* is sent again with the same region.
ExecuteResponse(p, response) ==
    /\ call = "client"
    /\ coro[p].pc \in {"attempt1", "attempt2"}
    /\ LET c == coro[p]
           error == UrlOpenError(c.method, c.bucket_name, c.object_name, response)
           got == [c EXCEPT !.response = response, !.exc = error]
       IN
       /\ region_map' = EvictOnError(error, c.bucket_name)
       /\ IF error = NoException
          THEN coro' = [coro EXCEPT ![p] =
                           [got EXCEPT !.returned = TRUE, !.pc = "done"]]
          ELSE IF c.pc = "attempt1" /\ error = Exception("S3Error", "RetryHead")
          THEN coro' = [coro EXCEPT ![p] =
                   [got EXCEPT
                       !.sent = Append(c.sent, Sent("request", c.method,
                                                    c.bucket_name, c.region)),
                       !.pc = "attempt2"]]
          ELSE coro' = [coro EXCEPT ![p] =
                   [got EXCEPT
                       !.raised = ReplayError(c.method, c.bucket_name, error,
                                              response),
                       !.pc = "done"]]
    /\ UNCHANGED <<objectVars, headerVars, bulkVars, base_region, provider, credentials, calls>>

\* Lines 503-530: make_bucket up to its await on the response.
MakeBucket(p, bucket_name, location) ==
    /\ call = "client"
    /\ MayCall(p)
    /\ calls' = calls + 1
    /\ LET begun == BeginCall("make_bucket", "PUT", bucket_name, None) IN
       IF base_region # None /\ location # None /\ base_region # location
       THEN coro' = [coro EXCEPT ![p] =
                [begun EXCEPT !.raised = Exception("ValueError", None),
                              !.pc = "done"]]
       ELSE coro' = [coro EXCEPT ![p] =
                [begun EXCEPT
                    !.region = MakeBucketLocation(location),
                    !.sent = <<Sent("request", "PUT", bucket_name,
                                    MakeBucketLocation(location))>>,
                    !.pc = "make_bucket"]]
    /\ UNCHANGED <<objectVars, headerVars, bulkVars, base_region, provider, credentials, region_map>>

\* A plausible slip of lines 524-531: the entry stored whatever the answer
\* to the PUT.
MakeBucketResponseStoresAlways(p, response) ==
    /\ call = "client"
    /\ coro[p].pc = "make_bucket"
    /\ LET c == coro[p]
           error == UrlOpenError("PUT", c.bucket_name, None, response)
           got == [c EXCEPT !.response = response, !.exc = error]
       IN  IF error = NoException
           THEN /\ region_map' = [region_map EXCEPT ![c.bucket_name] = c.region]
                /\ coro' = [coro EXCEPT ![p] =
                               [got EXCEPT !.returned = TRUE, !.pc = "done"]]
           ELSE /\ region_map' = [region_map EXCEPT ![c.bucket_name] = c.region]
                /\ coro' = [coro EXCEPT ![p] =
                               [got EXCEPT !.raised = error, !.pc = "done"]]
    /\ UNCHANGED <<objectVars, headerVars, bulkVars, base_region, provider, credentials, calls>>

\* Lines 524-531: the response to make_bucket's PUT; a success stores the
\* location in the region cache.
MakeBucketResponse(p, response) ==
    /\ call = "client"
    /\ coro[p].pc = "make_bucket"
    /\ LET c == coro[p]
           error == UrlOpenError("PUT", c.bucket_name, None, response)
           got == [c EXCEPT !.response = response, !.exc = error]
       IN  IF error = NoException
           THEN /\ region_map' = [region_map EXCEPT ![c.bucket_name] = c.region]
                /\ coro' = [coro EXCEPT ![p] =
                               [got EXCEPT !.returned = TRUE, !.pc = "done"]]
           ELSE /\ region_map' = EvictOnError(error, c.bucket_name)
                /\ coro' = [coro EXCEPT ![p] =
                               [got EXCEPT !.raised = error, !.pc = "done"]]
    /\ UNCHANGED <<objectVars, headerVars, bulkVars, base_region, provider, credentials, calls>>

\* The provider's credentials are renewed: retrieve() returns new ones from
\* now on.
Rotate ==
    /\ call = "client"
    /\ provider
    /\ credentials < MaxCredentials
    /\ credentials' = credentials + 1
    /\ UNCHANGED <<objectVars, headerVars, bulkVars, base_region, provider, region_map, coro, calls>>

NextClient ==
    \/ \E p \in Coroutines, a \in ExecuteArgs : Execute(p, a[1], a[2], a[3])
    \/ \E p \in Coroutines, response \in LocationResponses :
          LocationResponse(p, response)
    \/ \E p \in Coroutines, response \in HeadResponses \cup BodyResponses :
          /\ response \in (IF coro[p].method = "HEAD" THEN HeadResponses
                                                      ELSE BodyResponses)
          /\ ExecuteResponse(p, response)
    \/ \E p \in Coroutines, b \in Buckets, location \in Locations :
          MakeBucket(p, b, location)
    \/ \E p \in Coroutines, response \in BodyResponses :
          MakeBucketResponse(p, response)

\* Coroutines calling the client concurrently, its credentials staying the
\* same.
SpecClient == InitClient /\ [][NextClient]_vars

\* The coroutine of a client that makes one call after the other.
Sequential == {1}

NextRotation ==
    \/ \E p \in Sequential, a \in ExecuteArgs : Execute(p, a[1], a[2], a[3])
    \/ \E p \in Sequential, response \in LocationResponses :
          LocationResponse(p, response)
    \/ \E p \in Sequential, response \in HeadResponses \cup BodyResponses :
          /\ response \in (IF coro[p].method = "HEAD" THEN HeadResponses
                                                      ELSE BodyResponses)
          /\ ExecuteResponse(p, response)
    \/ \E p \in Sequential, b \in Buckets, location \in Locations :
          MakeBucket(p, b, location)
    \/ \E p \in Sequential, response \in BodyResponses :
          MakeBucketResponse(p, response)
    \/ Rotate

\* One call after the other, the provider's credentials being renewed at
\* any moment.
SpecRotation == InitClient /\ [][NextRotation]_vars


----------------------------------------------------------------------------
\* Minio.remove_bucket, next to make_bucket and the requests of _execute.

\* Lines 580-581 and 320-331: remove_bucket up to its first await on a
\* response: _execute("DELETE", bucket_name) resolves the region, with a
\* lookup when it has to, and sends the DELETE.
RemoveBucket(p, bucket_name) ==
    /\ call = "client"
    /\ MayCall(p)
    /\ calls' = calls + 1
    /\ LET region == get_region(bucket_name)
           begun == BeginCall("remove_bucket", "DELETE", bucket_name, None)
       IN  IF region # None
           THEN coro' = [coro EXCEPT ![p] =
                    [begun EXCEPT
                        !.region = region,
                        !.sent = <<Sent("request", "DELETE", bucket_name, region)>>,
                        !.pc = "attempt1"]]
           ELSE coro' = [coro EXCEPT ![p] =
                    [begun EXCEPT
                        !.sent = <<Sent("location", "GET", bucket_name,
                                        "us-east-1")>>,
                        !.pc = "location"]]
    /\ UNCHANGED <<objectVars, headerVars, bulkVars, base_region, provider, credentials, region_map>>

\* A plausible slip of line 582: the cache entry left in place.
RemoveBucketResponseKeepsEntry(p, response) ==
    /\ call = "client"
    /\ coro[p].op = "remove_bucket" /\ coro[p].pc = "attempt1"
    /\ LET c == coro[p]
           error == UrlOpenError("DELETE", c.bucket_name, None, response)
           got == [c EXCEPT !.response = response, !.exc = error]
       IN  IF error = NoException
           THEN /\ region_map' = region_map
                /\ coro' = [coro EXCEPT ![p] =
                       [got EXCEPT !.returned = TRUE, !.at = calls,
                                   !.pc = "done"]]
           ELSE /\ region_map' = EvictOnError(error, c.bucket_name)
                /\ coro' = [coro EXCEPT ![p] =
                               [got EXCEPT !.raised = error, !.pc = "done"]]
    /\ UNCHANGED <<objectVars, headerVars, bulkVars, base_region, provider, credentials, calls>>

\* Lines 581-582: the response to the DELETE of remove_bucket; a success
\* pops the bucket's cache entry. `at` notes how many calls had begun when
\* remove_bucket returned. A DELETE is never classified RetryHead, so the
\* error of _url_open is the error of _execute.
RemoveBucketResponse(p, response) ==
    /\ call = "client"
    /\ coro[p].op = "remove_bucket" /\ coro[p].pc = "attempt1"
    /\ LET c == coro[p]
           error == UrlOpenError("DELETE", c.bucket_name, None, response)
           got == [c EXCEPT !.response = response, !.exc = error]
       IN  IF error = NoException
           THEN /\ region_map' = [region_map EXCEPT ![c.bucket_name] = None]
                /\ coro' = [coro EXCEPT ![p] =
                       [got EXCEPT !.returned = TRUE, !.at = calls,
                                   !.pc = "done"]]
           ELSE /\ region_map' = EvictOnError(error, c.bucket_name)
                /\ coro' = [coro EXCEPT ![p] =
                               [got EXCEPT !.raised = error, !.pc = "done"]]
    /\ UNCHANGED <<objectVars, headerVars, bulkVars, base_region, provider, credentials, calls>>

NextRemove ==
    \/ \E p \in Coroutines : Execute(p, "HEAD", "b1", None)
    \/ \E p \in Coroutines, response \in LocationResponses :
          LocationResponse(p, response)
    \/ \E p \in Coroutines, response \in HeadResponses :
          /\ coro[p].op = "_execute"
          /\ ExecuteResponse(p, response)
    \/ \E p \in Coroutines, b \in Buckets, location \in Locations :
          MakeBucket(p, b, location)
    \/ \E p \in Coroutines, response \in BodyResponses :
          MakeBucketResponse(p, response)
    \/ \E p \in Coroutines, b \in Buckets : RemoveBucket(p, b)
    \/ \E p \in Coroutines, response \in BodyResponses :
          RemoveBucketResponse(p, response)

\* Coroutines creating, removing and testing buckets concurrently.
SpecRemove == InitClient /\ [][NextRemove]_vars

----------------------------------------------------------------------------
\* _execute answered 409 Conflict.

\* Answers of status 409: without body, as a HEAD gets them, and with an
\* empty XML body.
ConflictResponses ==
    {Response(409, None, FALSE, None), Response(409, None, TRUE, None)}

NextConflict ==
    \/ \E p \in Sequential, a \in ExecuteArgs : Execute(p, a[1], a[2], a[3])
    \/ \E p \in Sequential, response \in LocationResponses :
          LocationResponse(p, response)
    \/ \E p \in Sequential,
          response \in ConflictResponses \cup {Response(200, None, FALSE, None)} :
          ExecuteResponse(p, response)
    \/ \E p \in Sequential, b \in Buckets, location \in Locations :
          MakeBucket(p, b, location)
    \/ \E p \in Sequential, response \in BodyResponses :
          MakeBucketResponse(p, response)

\* One call after the other, the requests of _execute being answered 409.
SpecConflict == InitClient /\ [][NextConflict]_vars

----------------------------------------------------------------------------
\* Minio.remove_objects and Minio._delete_objects. The input objects are
\* numbered 1, 2, ... in input order.

\* Line 1902: range(1000), the most objects of one delete request; scaled.
MaxDeleteBatch == 2

\* The longest input.
MaxDeleteList == 5

\* The codes of the errors a DeleteResult reports.
DeleteErrorCodes == {"NoSuchVersion", "AccessDenied"}

\* datatypes.DeleteError: the code and the object it is about (0: the
\* answer was one Error element about the whole request, line 1850).
DeleteError(code, name) == [code |-> code, name |-> name]

\* Lines 1900-1904: the list built from zip(range(n), it): zip asks range
\* first, so it stops without asking the iterator for one more object.
ZipRange(n, it) == Take(it, n)

\* A plausible slip: zip(it, range(n)) asks the iterator first, and the
\* object it hands out after the n-th is dropped.
AfterZipOfIterator(n, it) == Drop(it, n + 1)

\* Lines 1900-1904: what the iterator still holds after the zip.
AfterZipRange(n, it) == Drop(it, n)

\* The error lists a DeleteResult may carry for a batch: for each object
\* of the batch no error or an error of some code, in batch order; or one
\* error about the whole request.
RECURSIVE ErrorLists(_)
ErrorLists(batch) ==
    IF batch = <<>> THEN {<<>>}
    ELSE LET rest == ErrorLists(Tail(batch)) IN
         rest \cup { <<DeleteError(c, Head(batch))>> \o r :
                       c \in DeleteErrorCodes, r \in rest }

DeleteResults(batch) ==
    ErrorLists(batch) \cup { <<DeleteError(c, 0)>> : c \in DeleteErrorCodes }

\* Line 1916: filter(lambda error: error.code != "NoSuchVersion", ...).
RECURSIVE FilterErrors(_)
FilterErrors(error_list) ==
    IF error_list = <<>> THEN <<>>
    ELSE (IF Head(error_list).code # "NoSuchVersion"
          THEN <<Head(error_list)>> ELSE <<>>)
         \o FilterErrors(Tail(error_list))

InitRemoveObjects ==
    /\ call = "remove_objects"
    /\ pc = "take"
    /\ CallStart
    /\ PutIdle
    /\ ComposeIdle
    /\ ClientIdle
    /\ HeadersIdle
    /\ \E n \in 0..MaxDeleteList : delete_object_list = [i \in 1..n |-> i]
    /\ objects = <<>>
    /\ yielded = <<>>
    /\ listing = NoListing
    /\ download = NoDownload

bulkOthers == <<exc, aborts_failed, part_number, upload_id, putVars,
                composeVars, clientVars, headerVars>>

\* Lines 1898-1908: the next batch is taken from the input; an empty batch
\* ends the loop.
TakeObjects ==
    /\ call = "remove_objects" /\ pc = "take"
    /\ objects' = ZipRange(MaxDeleteBatch, delete_object_list)
    /\ delete_object_list' = AfterZipRange(MaxDeleteBatch, delete_object_list)
    /\ pc' = IF objects' = <<>> THEN "done" ELSE "delete"
    /\ UNCHANGED <<call, requests, raised, result, yielded, listing, download,
                   bulkOthers>>

\* Lines 1910-1918 and 1837-1853: the batch is sent in one delete request;
\* the request fails, or its DeleteResult comes back and the errors that
\* are not NoSuchVersion are yielded, if there are any.
DeleteObjects ==
    /\ call = "remove_objects" /\ pc = "delete"
    /\ requests' = Append(requests, Request("DeleteObjects", None, 0, objects))
    /\ \/ /\ raised' = Err("DeleteObjectsError", 0)
          /\ pc' = "done"
          /\ UNCHANGED <<result, yielded>>
       \/ \E error_list \in DeleteResults(objects) :
             LET errors == FilterErrors(error_list) IN
             /\ result' = error_list
             /\ yielded' = IF errors # <<>> THEN Append(yielded, errors)
                           ELSE yielded
             /\ pc' = "take"
             /\ UNCHANGED raised
    /\ UNCHANGED <<call, delete_object_list, objects, listing, download,
                   bulkOthers>>

NextRemoveObjects == TakeObjects \/ DeleteObjects

SpecRemoveObjects == InitRemoveObjects /\ [][NextRemoveObjects]_vars

----------------------------------------------------------------------------
\* Minio.list_objects and Minio._list_objects.

\* Line 2630: str(max_keys or 1000), the most objects of one page; scaled.
MaxKeys == 2

\* The most objects in the bucket listed.
MaxListed == 5

\* Lines 2614-2640: the query of one listing request.
ListQuery(l) ==
    LET v2 == ~l.include_version /\ ~l.use_api_v1 IN
    [versions           |-> l.include_version,
     list_type          |-> IF v2 THEN 2 ELSE 1,
     continuation_token |-> IF v2 THEN l.continuation_token ELSE 0,
     max_keys           |-> MaxKeys,
     start_after        |-> l.start_after]

\* Where a page starts: after the continuation token of a version 2
\* query that carries one, else after its start-after, marker or
\* key-marker.
PageStart(query) ==
    IF query.continuation_token # 0 THEN query.continuation_token
    ELSE query.start_after

\* The objects numbered a+1 .. b.
ObjectRange(a, b) == [i \in 1..(IF b > a THEN b - a ELSE 0) |-> a + i]

\* Line 1719: list_objects hands its arguments to _list_objects, whose
\* line 2612 sets is_truncated before the loop.
InitListObjects ==
    /\ call = "list_objects"
    /\ pc = "list"
    /\ CallStart
    /\ PutIdle
    /\ ComposeIdle
    /\ ClientIdle
    /\ HeadersIdle
    /\ RemoveObjectsIdle
    /\ download = NoDownload
    /\ \E count \in 0..MaxListed, v1 \in BOOLEAN, versions \in BOOLEAN :
          \E after \in 0..count :
             listing = [count |-> count, use_api_v1 |-> v1,
                        include_version |-> versions,
                        start_after |-> after, continuation_token |-> 0,
                        is_truncated |-> TRUE]

\* Lines 2613-2653: one pass of the loop of _list_objects. The request
\* fails, or the server answers a page of at most max-keys objects with
\* its truncation flag and next marker, which parse_list_objects returns
\* (line 2644); lines 2647-2651 keep the marker, and line 2653, inside the
\* loop, returns the objects of this page.
ListObjectsPage ==
    /\ call = "list_objects" /\ pc = "list"
    /\ listing.is_truncated
    /\ LET query == ListQuery(listing)
           from == PageStart(query)
       IN /\ requests' = Append(requests, Request("ListObjects", None, 0, query))
          /\ \/ /\ raised' = Err("ListObjectsError", 0)
                /\ UNCHANGED <<result, listing>>
             \/ \E k \in 1..MaxKeys :
                   LET last == Min(from + k, listing.count)
                       truncated == last < listing.count
                       marker == IF truncated THEN last ELSE 0
                   IN /\ listing' =
                           [listing EXCEPT
                              !.is_truncated = truncated,
                              !.start_after = marker,
                              !.continuation_token =
                                 IF ~listing.include_version
                                    /\ ~listing.use_api_v1
                                 THEN marker ELSE @]
                      /\ result' = ObjectRange(from, last)
                      /\ UNCHANGED raised
    /\ pc' = "done"
    /\ UNCHANGED <<call, delete_object_list, objects, yielded, download,
                   bulkOthers>>

NextListObjects == ListObjectsPage

SpecListObjects == InitListObjects /\ [][NextListObjects]_vars

----------------------------------------------------------------------------
\* Minio.fget_object and Minio.get_object. The bytes of the object are
\* numbered 1, 2, ... ; a byte 0 is one that is not of the object.

\* The largest object downloaded.
MaxObjectSize == 3

\* The content a temporary file of k bytes may have before the call: the
\* first k bytes of the object, as an interrupted download left them, with
\* foreign bytes after them when it is longer than the object.
PartialFile(data, k) ==
    [i \in 1..k |-> IF i <= Len(data) THEN data[i] ELSE 0]

InitFgetObject ==
    /\ call = "fget_object"
    /\ pc = "stat"
    /\ CallStart
    /\ PutIdle
    /\ ComposeIdle
    /\ ClientIdle
    /\ HeadersIdle
    /\ RemoveObjectsIdle
    /\ listing = NoListing
    /\ \E n \in 0..MaxObjectSize, tmp \in BOOLEAN, old \in BOOLEAN :
          \E k \in (IF tmp THEN 0..(n + 1) ELSE {0}) :
             LET data == ObjectRange(0, n) IN
             download = [data |-> data,
                         tmp_exists |-> tmp,
                         tmp_file |-> PartialFile(data, k),
                         file_exists |-> old,
                         file |-> IF old THEN <<0>> ELSE <<>>,
                         offset |-> 0, response |-> <<>>]

\* Lines 945-964: stat_object, then the size of the temporary file, if
\* there is one, is the offset; a temporary file larger than the object is
\* removed and the offset is 0.
FgetStat ==
    /\ call = "fget_object" /\ pc = "stat"
    /\ requests' = Append(requests, Request("StatObject", None, 0, None))
    /\ \/ /\ raised' = Err("StatObjectError", 0)
          /\ pc' = "done"
          /\ UNCHANGED download
       \/ LET size_on_disk == IF download.tmp_exists
                              THEN Len(download.tmp_file) ELSE 0
              too_large == size_on_disk > Len(download.data)
          IN /\ download' =
                  [download EXCEPT
                     !.offset = IF too_large THEN 0 ELSE size_on_disk,
                     !.tmp_exists = IF too_large THEN FALSE ELSE @,
                     !.tmp_file = IF too_large THEN <<>> ELSE @]
             /\ pc' = "get"
             /\ UNCHANGED raised
    /\ UNCHANGED <<call, result, delete_object_list, objects, yielded,
                   listing, bulkOthers>>

\* Lines 1053-1055: the Range header of get_object(offset) with no length:
\* "bytes=<offset>-" for an offset that is not 0, none (0) otherwise.
RangeHeader(offset_) == IF offset_ # 0 THEN offset_ ELSE 0

\* Lines 967-975 and 1053-1066: get_object. The request fails, which it
\* always does for a range that starts at or after the end of the object
\* (416, unsatisfiable range), or the response holds the bytes of the
\* object from the offset on.
FgetGetObject ==
    /\ call = "fget_object" /\ pc = "get"
    /\ LET range == RangeHeader(download.offset) IN
       /\ requests' = Append(requests, Request("GetObject", None, 0, range))
       /\ \/ /\ raised' = Err("GetObjectError", 0)
             /\ pc' = "done"
             /\ UNCHANGED download
          \/ /\ range = 0 \/ range < Len(download.data)
             /\ download' = [download EXCEPT
                               !.response = Drop(download.data, range)]
             /\ pc' = "write"
             /\ UNCHANGED raised
    /\ UNCHANGED <<call, result, delete_object_list, objects, yielded,
                   listing, bulkOthers>>

\* Line 976: async_open(tmp_file_path, "wb") creates the file or
\* truncates it: what it held is gone.
OpenForWriting(d) == <<>>

\* Lines 976-978: the temporary file is opened and the chunks of the
\* response are written to it, all of them, or only the first ones when
\* reading the response fails.
FgetWrite ==
    /\ call = "fget_object" /\ pc = "write"
    /\ LET opened == OpenForWriting(download) IN
       \/ /\ download' = [download EXCEPT
                            !.tmp_exists = TRUE,
                            !.tmp_file = opened \o download.response]
          /\ pc' = "rename"
          /\ UNCHANGED raised
       \/ \E j \in 0..(Len(download.response) - 1) :
             /\ download' = [download EXCEPT
                               !.tmp_exists = TRUE,
                               !.tmp_file = opened \o Take(download.response, j)]
             /\ raised' = Err("ReadError", 0)
             /\ pc' = "done"
    /\ UNCHANGED <<call, requests, result, delete_object_list, objects,
                   yielded, listing, bulkOthers>>

\* Lines 979-982: the file at file_path, if any, is removed, the temporary
\* file is renamed to it, and the stat is returned.
FgetRename ==
    /\ call = "fget_object" /\ pc = "rename"
    /\ download' = [download EXCEPT
                      !.file_exists = TRUE, !.file = download.tmp_file,
                      !.tmp_exists = FALSE, !.tmp_file = <<>>]
    /\ result' = Len(download.data)
    /\ pc' = "done"
    /\ UNCHANGED <<call, requests, raised, delete_object_list, objects,
                   yielded, listing, bulkOthers>>

NextFgetObject == FgetStat \/ FgetGetObject \/ FgetWrite \/ FgetRename

SpecFgetObject == InitFgetObject /\ [][NextFgetObject]_vars

----------------------------------------------------------------------------
\* The two multipart calls, put_object and compose_object, side by side.

InitUpload == InitPut \/ InitCompose

NextUpload == NextPut \/ NextCompose

SpecUpload == InitUpload /\ [][NextUpload]_vars

----------------------------------------------------------------------------
\* _execute as the multipart requests call it, next to put_object.

\* The calls of _execute: a HEAD, and the methods of UploadPart and
\* UploadPartCopy (PUT), of CreateMultipartUpload and
\* CompleteMultipartUpload (POST) and of AbortMultipartUpload (DELETE).
ResendArgs ==
    {<<"HEAD", "b1", None>>, <<"PUT", "b1", "object">>,
     <<"POST", "b1", "object">>, <<"DELETE", "b1", "object">>}

\* Redirect answers to a request other than HEAD, with the
\* x-amz-bucket-region header: not XML, empty, or an error document.
RedirectBodies ==
    {Response(s, "eu-west-1", FALSE, None) : s \in RedirectStatuses}
    \cup {Response(s, "eu-west-1", TRUE, c) :
              s \in RedirectStatuses, c \in {None, "PermanentRedirect"}}

InitResend == InitPut \/ InitClient

NextResend ==
    \/ NextPut
    \/ \E p \in Coroutines, a \in ResendArgs : Execute(p, a[1], a[2], a[3])
    \/ \E p \in Coroutines, response \in LocationResponses :
          LocationResponse(p, response)
    \/ \E p \in Coroutines,
          response \in HeadResponses \cup BodyResponses \cup RedirectBodies :
          /\ response \in (IF coro[p].method = "HEAD"
                           THEN HeadResponses
                           ELSE BodyResponses \cup RedirectBodies)
          /\ ExecuteResponse(p, response)

\* A put_object, or coroutines sending the requests of one through
\* _execute.
SpecResend == InitResend /\ [][NextResend]_vars

----------------------------------------------------------------------------
\* Minio.get_presigned_url. A timedelta is modelled by its milliseconds.

\* Line 1954: the bounds of expires.total_seconds(), 1 and 604800 seconds.
MinExpires == 1000
MaxExpires == 604800000

\* The values of expires get_presigned_url is called with.
Expiries == {0, 999, 1000, 1001, 86400000, 604800000, 604800001}

\* A plausible slip of line 1954: `>=` for `>`.
ExpiresInRangeStrict(expires) == expires >= MinExpires /\ expires < MaxExpires

\* Line 1954, negated: expires passes the check.
ExpiresInRange(expires) == expires >= MinExpires /\ expires <= MaxExpires

\* Lines 1952-1958: get_presigned_url up to its first await on a response:
\* the check of expires, then the region as in _execute.
GetPresignedUrl(p, bucket_name, expires) ==
    /\ call = "client"
    /\ MayCall(p)
    /\ calls' = calls + 1
    /\ LET region == get_region(bucket_name)
           begun == [BeginCall("get_presigned_url", "GET", bucket_name, "object")
                        EXCEPT !.expires = expires]
       IN  IF ~ExpiresInRange(expires)
           THEN coro' = [coro EXCEPT ![p] =
                    [begun EXCEPT !.raised = Exception("ValueError", None),
                                  !.pc = "done"]]
           ELSE IF region # None
           THEN coro' = [coro EXCEPT ![p] =
                    [begun EXCEPT !.region = region, !.pc = "presign"]]
           ELSE coro' = [coro EXCEPT ![p] =
                    [begun EXCEPT
                        !.sent = <<Sent("location", "GET", bucket_name,
                                        "us-east-1")>>,
                        !.pc = "presign_location"]]
    /\ UNCHANGED <<objectVars, headerVars, bulkVars, base_region, provider, credentials,
                   region_map>>

\* Lines 384-400: the response to the GetBucketLocation request of
\* get_presigned_url.
PresignLocationResponse(p, response) ==
    /\ call = "client"
    /\ coro[p].pc = "presign_location"
    /\ LET c == coro[p]
           error == UrlOpenError("GET", c.bucket_name, None, response)
           got == [c EXCEPT !.response = response, !.exc = error]
       IN  IF error = NoException
           THEN /\ region_map' = [region_map EXCEPT ![c.bucket_name] =
                                      MapLocation(response.body)]
                /\ coro' = [coro EXCEPT ![p] =
                       [got EXCEPT !.region = MapLocation(response.body),
                                   !.pc = "presign"]]
           ELSE /\ region_map' = EvictOnError(error, c.bucket_name)
                /\ coro' = [coro EXCEPT ![p] =
                               [got EXCEPT !.raised = error, !.pc = "done"]]
    /\ UNCHANGED <<objectVars, headerVars, bulkVars, base_region, provider, credentials,
                   calls>>

\* Lines 1959-1981: the URL is built and, with credentials, presigned.
\* Line 1962 awaits self._provider.retrieve(), which line 210 calls without
\* await: Provider is outside src/, so the await either yields the
\* credentials or raises TypeError.
PresignUrl(p) ==
    /\ call = "client"
    /\ coro[p].pc = "presign"
    /\ \/ coro' = [coro EXCEPT ![p].returned = TRUE, ![p].pc = "done"]
       \/ /\ provider
          /\ coro' = [coro EXCEPT ![p].raised = Exception("TypeError", None),
                                  ![p].pc = "done"]
    /\ UNCHANGED <<objectVars, headerVars, bulkVars, base_region, provider, credentials,
                   region_map, calls>>

NextPresign ==
    \/ \E p \in Sequential, b \in Buckets, expires \in Expiries :
          GetPresignedUrl(p, b, expires)
    \/ \E p \in Sequential, response \in LocationResponses :
          PresignLocationResponse(p, response)
    \/ \E p \in Sequential : PresignUrl(p)

SpecPresign == InitClient /\ [][NextPresign]_vars

----------------------------------------------------------------------------
\* Minio._build_headers and the signature of _url_open

\* Bodies of a request: None, the empty body and two bodies with data.
Bodies == {None, "", "<Delete/>", "<Tagging/>"}

\* Credentials as retrieve() returns them, without and with session token.
CredentialsValues ==
    {Value("credentials", None), Value("credentials", "session-token")}

\* helpers.md5sum_hash(body): the digest of the body; None for no body.
md5sum_hash(body) == IF body = None THEN Absent ELSE Value("md5", body)

\* helpers.sha256_hash(body): the digest of the body, of no data for None.
sha256_hash(body) == Value("sha256", IF body = None THEN "" ELSE body)

\* A plausible slip of lines 182-186: the test of is_https inverted.
PayloadHashInverted(creds, https, body) ==
    IF creds = Absent THEN Absent
    ELSE IF ~https THEN Value("literal", "UNSIGNED-PAYLOAD")
    ELSE sha256_hash(body)

\* Lines 176-186: the value of sha256 in _build_headers.
PayloadHash(creds, https, body) ==
    IF creds = Absent THEN Absent
    ELSE IF https THEN Value("literal", "UNSIGNED-PAYLOAD")
    ELSE sha256_hash(body)

\* Lines 173-190: the Content-MD5 header _build_headers returns, `supplied`
\* being the caller's.
ContentMD5(creds, https, body, supplied) ==
    LET md5sum == IF creds # Absent /\ ~https THEN Absent
                  ELSE IF supplied # Absent THEN Absent
                  ELSE md5sum_hash(body)
    IN  IF md5sum # Absent THEN md5sum ELSE supplied

InitHeaders ==
    /\ call = "_url_open"
    /\ pc = "idle"
    /\ CallStart
    /\ PutIdle
    /\ ComposeIdle
    /\ ClientIdle
    /\ BulkIdle
    /\ is_https \in BOOLEAN
    /\ \E creds \in {Absent} \cup CredentialsValues, body \in Bodies,
          supplied \in {Absent, Value("caller", "Content-MD5")} :
          hdr = [NoHeaders EXCEPT !.pc = "build_headers",
                                  !.credentials = creds, !.body = body,
                                  !.content_md5 = supplied]

\* Lines 170-197: _build_headers.
BuildHeaders ==
    /\ call = "_url_open" /\ hdr.pc = "build_headers"
    /\ hdr' = [hdr EXCEPT
                  !.content_md5 = ContentMD5(hdr.credentials, is_https, hdr.body,
                                             hdr.content_md5),
                  !.sha256 = PayloadHash(hdr.credentials, is_https, hdr.body),
                  !.token = IF hdr.credentials # Absent
                               /\ hdr.credentials.of # None
                            THEN Value("literal", hdr.credentials.of)
                            ELSE Absent,
                  !.pc = "sign"]
    /\ UNCHANGED <<objectVars, clientVars, bulkVars, is_https>>

\* Lines 219-230: the request is signed if there are credentials,
\* sign_v4_s3 being given the x-amz-content-sha256 header, and is sent.
SignAndSend ==
    /\ call = "_url_open" /\ hdr.pc = "sign"
    /\ hdr' = [hdr EXCEPT
                  !.authorization = IF hdr.credentials # Absent
                                    THEN Value("sign_v4_s3", hdr.sha256)
                                    ELSE Absent,
                  !.pc = "request"]
    /\ UNCHANGED <<objectVars, clientVars, bulkVars, is_https>>

NextHeaders == BuildHeaders \/ SignAndSend

SpecHeaders == InitHeaders /\ [][NextHeaders]_vars

----------------------------------------------------------------------------
\* Properties of put_object

IsPut == call = "put_object"

RequestsOf(op) == {i \in DOMAIN requests : requests[i].op = op}

\* The plan of the call's arguments.
ThePlan == get_part_info(length, requested_part_size)

\* Bytes (k-1)*ps+1 .. min(k*ps, total) of the stream: part k of a stream of
\* `total` bytes cut every ps bytes.
ExpectedPart(k, ps, total) == SubSeq(stream, (k - 1) * ps + 1, Min(k * ps, total))

\* The body of the upload-part request of part k.
UploadedBody(k) ==
    requests[CHOOSE i \in RequestsOf("UploadPart") : requests[i].part_number = k].body

\* The bodies of parts 1..n, concatenated in part-number order.
UploadedObject(n) == Concat([k \in 1..n |-> UploadedBody(k)])

\* C1: once put_object holds an upload id, an error of a later step leads to
\* exactly one abort request for that upload id, and the call raises that
\* same error.
C1_AbortOnceThenOriginalError ==
    (IsPut /\ pc = "done" /\ upload_id # None /\ exc # NoError) =>
        /\ Cardinality(RequestsOf("AbortMultipartUpload")) = 1
        /\ \A i \in RequestsOf("AbortMultipartUpload") :
              requests[i].upload_id = upload_id
        /\ raised = exc

\* C2: when the abort request of the failure cleanup itself fails, its
\* error is swallowed: the caller gets the error that triggered the cleanup.
C2_AbortErrorSwallowed ==
    (pc = "done" /\ aborts_failed) => raised = exc

\* C3: every completion request of put_object lists the parts 1, 2, ..., N
\* in ascending order without gap or duplicate, N the number of parts,
\* whatever order the part uploads finished in.
C3_CompletionListsPartsAscending ==
    IsPut =>
        \A i \in RequestsOf("CompleteMultipartUpload") :
            /\ Len(requests[i].body) = part_count
            /\ \A k \in 1..Len(requests[i].body) :
                  requests[i].body[k].part_number = k

\* A completion request was sent in parallel mode after the part uploads
\* finished out of part-number order.
C3_Witness ==
    /\ IsPut /\ parallel_upload
    /\ RequestsOf("CompleteMultipartUpload") # {}
    /\ Len(finished) >= 3
    /\ finished[1] > finished[2]

\* The upload has exactly one part: a known length within one part, or an
\* unknown length whose first lookahead read returns at most part_size bytes.
OnePartUpload ==
    /\ ThePlan.ok
    /\ IF length >= 0 THEN ThePlan.part_count <= 1
                      ELSE Len(stream) <= ThePlan.part_size

\* C4: a one-part upload sends one plain PUT of the whole data and nothing
\* else, no create, upload-part, completion or abort request, also when the
\* PUT fails; it sends it unless reading the source failed.
C4_OnePartIsOnePlainPut ==
    (IsPut /\ OnePartUpload) =>
        /\ Len(requests) <= 1
        /\ \A i \in DOMAIN requests :
              requests[i] = Request("PutObject", None, 0, stream)
        /\ upload_id = None
        /\ (pc = "done" /\ exc[1] # "ReadError") => Len(requests) = 1

\* A one-part upload of unknown length whose PUT failed.
C4_Witness ==
    /\ IsPut /\ OnePartUpload /\ length = -1 /\ Len(stream) > 0
    /\ pc = "done"
    /\ raised = Err("PutObjectError", 1)
    /\ Len(requests) = 1

\* C5: a put_object of N > 1 parts that meets no error sends one create
\* request, then one upload-part request for each part number 1..N, the
\* parts submitted in read order, then one completion request, and no abort.
C5_MultipartRequestOrder ==
    (IsPut /\ pc = "done" /\ result # None /\ part_count > 1) =>
        /\ Len(requests) = part_count + 2
        /\ requests[1].op = "CreateMultipartUpload"
        /\ requests[part_count + 2].op = "CompleteMultipartUpload"
        /\ \A i \in 2..(part_count + 1) :
              /\ requests[i].op = "UploadPart"
              /\ requests[i].upload_id = NewUploadId
        /\ \A k \in 1..part_count :
              \E i \in 2..(part_count + 1) : requests[i].part_number = k
        /\ IF parallel_upload
           THEN /\ Len(parallel_tasks) = part_count
                /\ \A k \in 1..part_count : parallel_tasks[k].part_number = k
           ELSE \A k \in 1..part_count : requests[k + 1].part_number = k

\* A four-part upload completed in parallel mode, the first upload-part
\* request on the wire not being that of part 1.
C5_Witness ==
    /\ IsPut /\ pc = "done" /\ result # None
    /\ part_count = 4 /\ parallel_upload
    /\ requests[2].part_number # 1

\* Number of parts of a stream of n bytes of unknown length cut every p bytes.
UnknownLengthParts(n, p) == IF n = 0 THEN 1 ELSE Ceil(n, p)

\* C6: with unknown length and part size P, every non-final part has exactly
\* P bytes, the final part at most P, the loop stops at the first read of at
\* most P bytes, and the parts in part-number order are the stream: the
\* lookahead byte is neither lost nor duplicated.
C6_UnknownLengthParts ==
    (IsPut /\ length = -1 /\ ThePlan.ok /\ pc # "get_part_info") =>
        LET P == ThePlan.part_size
            L == Len(stream)
            N == UnknownLengthParts(L, P)
        IN  /\ \A i \in DOMAIN requests :
                  LET r == requests[i] IN
                  /\ r.op = "UploadPart" =>
                        /\ r.part_number \in 1..N
                        /\ r.body = ExpectedPart(r.part_number, P, L)
                        /\ r.part_number < N => Len(r.body) = P
                        /\ Len(r.body) <= P
                  /\ r.op = "PutObject" => (N = 1 /\ r.body = stream)
                  /\ r.op = "CompleteMultipartUpload" =>
                        /\ Len(r.body) = N
                        /\ UploadedObject(N) = stream
            /\ stop => (part_number = N /\ part_count = N)
            /\ (~stop /\ part_number > 0 /\ exc[1] # "ReadError") =>
                  part_number * P < L
            /\ exc[1] # "ReadError" =>
                  Take(stream, uploaded_size)
                      \o (IF stop THEN <<>> ELSE one_byte) \o source = stream

\* An upload of unknown length completed whose stream is exactly three
\* parts long: the last lookahead read finds one carried byte and the end.
C6_Witness ==
    /\ IsPut /\ length = -1 /\ pc = "done" /\ result # None
    /\ part_count = 3
    /\ Len(stream) = 3 * part_size

C8_PlanCoversSizeWithinCountLimit ==
    (IsPut /\ pc = "loop" /\ part_number = 0 /\ length >= 0
        /\ requested_part_size \in MIN_PART_SIZE..MAX_PART_SIZE) =>
        /\ (part_count - 1) * part_size < length
        /\ length <= part_count * part_size
        /\ part_count <= MAX_MULTIPART_COUNT

----------------------------------------------------------------------------
\* Properties of compose_object

IsCompose == call = "compose_object"

\* The byte ranges of the copy-part requests of source i, in sending order.
CopyRangesOf(i) ==
    LET OfSource(r) == r.op = "UploadPartCopy" /\ r.body.source = i
        rs == SelectSeq(requests, OfSource)
    IN  [j \in 1..Len(rs) |-> rs[j].body.range]

\* Number of bytes an inclusive range first-last names.
RangeLength(range) == range[2] - range[1] + 1

\* C9: the copy-part ranges of a source above MAX_PART_SIZE are consecutive
\* and non-overlapping, span at most MAX_PART_SIZE bytes each and cover, in
\* order, exactly the source's effective range [offset, offset + size - 1].
C9_SplitRangesCoverSource ==
    (IsCompose /\ pc = "complete_multipart_upload") =>
        \A i \in 1..Len(sources) :
            EffectiveSize(sources[i]) > MAX_PART_SIZE =>
                LET rs == CopyRangesOf(i)
                    first == OffsetOrZero(sources[i])
                    last == first + EffectiveSize(sources[i]) - 1
                IN  /\ Len(rs) >= 1
                    /\ rs[1][1] = first
                    /\ rs[Len(rs)][2] = last
                    /\ \A j \in 1..Len(rs) :
                          /\ rs[j][1] <= rs[j][2]
                          /\ RangeLength(rs[j]) <= MAX_PART_SIZE
                    /\ \A j \in 1..(Len(rs) - 1) : rs[j + 1][1] = rs[j][2] + 1

\* Some source other than the last has an effective size below MIN_PART_SIZE.
SmallNonFinalSource ==
    /\ Len(sources) > 1
    /\ \E i \in 1..(Len(sources) - 1) :
          EffectiveSize(sources[i]) < MIN_PART_SIZE

\* C10: compose_object with several sources, one of them other than the last
\* below MIN_PART_SIZE, raises a validation error (unless a size lookup
\* failed first) and sends the destination no create, copy-part or copy
\* request: nothing but size lookups is sent.
C10_SmallNonFinalSourceFailsEarly ==
    (IsCompose /\ SmallNonFinalSource) =>
        /\ \A r \in DOMAIN requests : requests[r].op = "StatObject"
        /\ upload_id = None
        /\ pc \in {"calc_part_count", "done"}
        /\ pc = "done" =>
              /\ result = None
              /\ raised[1] \in {"ValueError", "StatObjectError"}

\* compose_object with two sources has raised the validation error for its
\* first source, whose size is below MIN_PART_SIZE.
C10_Witness ==
    /\ IsCompose /\ SmallNonFinalSource
    /\ pc = "done"
    /\ raised = Err("ValueError", 1)
    /\ Len(requests) = 1

\* Sum of the effective sizes of sources 1..n.
RECURSIVE TotalSize(_)
TotalSize(n) == IF n = 0 THEN 0 ELSE TotalSize(n - 1) + EffectiveSize(sources[n])

\* Number of parts of the plan of sources 1..n: one for a source of at most
\* MAX_PART_SIZE bytes, else its size divided by MAX_PART_SIZE, rounded up.
RECURSIVE PlanPartCount(_)
PlanPartCount(n) ==
    IF n = 0 THEN 0
    ELSE PlanPartCount(n - 1)
         + (IF EffectiveSize(sources[n]) <= MAX_PART_SIZE THEN 1
            ELSE Ceil(EffectiveSize(sources[n]), MAX_PART_SIZE))

\* The sources sum to more than MAX_MULTIPART_OBJECT_SIZE bytes or plan more
\* than MAX_MULTIPART_COUNT parts.
OverLimits ==
    \/ TotalSize(Len(sources)) > MAX_MULTIPART_OBJECT_SIZE
    \/ PlanPartCount(Len(sources)) > MAX_MULTIPART_COUNT

\* C11: compose_object whose sources sum to more than
\* MAX_MULTIPART_OBJECT_SIZE or plan more than MAX_MULTIPART_COUNT parts
\* raises a validation error (unless a size lookup failed first) before any
\* request that changes the destination: nothing but size lookups is sent.
C11_OverLimitsFailsBeforeDestination ==
    (IsCompose /\ OverLimits) =>
        /\ \A r \in DOMAIN requests : requests[r].op = "StatObject"
        /\ upload_id = None
        /\ pc \in {"calc_part_count", "done"}
        /\ pc = "done" =>
              /\ result = None
              /\ raised[1] \in {"ValueError", "StatObjectError"}

\* compose_object has raised the validation error of the part count: its
\* two sources are within the size limit, each passed its own checks, and
\* together they plan more than MAX_MULTIPART_COUNT parts.
C11_Witness ==
    /\ IsCompose /\ pc = "done"
    /\ TotalSize(Len(sources)) <= MAX_MULTIPART_OBJECT_SIZE
    /\ PlanPartCount(Len(sources)) > MAX_MULTIPART_COUNT
    /\ raised = Err("ValueError", 0)
    /\ Len(requests) = Len(sources)

\* The plan has exactly one part and its single source names neither an
\* offset nor a length.
OnePartPlainSource ==
    /\ Len(sources) = 1
    /\ PlanPartCount(1) = 1
    /\ sources[1].offset = Unset
    /\ sources[1].length = Unset

\* The requests other than size lookups, in sending order.
DestinationRequests ==
    LET NotStat(r) == r.op # "StatObject" IN SelectSeq(requests, NotStat)

\* C12: compose_object of a one-part plan whose single source names neither
\* offset nor length is a copy_object: the destination gets exactly one
\* server-side copy PUT of the whole source (unless a size lookup failed),
\* no create, copy-part, completion or abort request, and the call returns
\* what copy_object returns.
C12_OnePartPlainSourceIsCopyObject ==
    (IsCompose /\ OnePartPlainSource) =>
        /\ upload_id = None
        /\ Len(DestinationRequests) <= 1
        /\ \A i \in DOMAIN DestinationRequests :
              DestinationRequests[i] =
                  Request("CopyObject", None, 0, [source |-> 1, range |-> <<>>])
        /\ pc = "done" =>
              /\ raised[1] # "StatObjectError" => Len(DestinationRequests) = 1
              /\ raised[1] # "ValueError"
              /\ raised = NoError => result = CopyObjectResult

\* compose_object of one whole source of MAX_PART_SIZE bytes has returned
\* the result of its copy_object.
C12_Witness ==
    /\ IsCompose /\ OnePartPlainSource
    /\ EffectiveSize(sources[1]) = MAX_PART_SIZE
    /\ pc = "done"
    /\ result = CopyObjectResult
    /\ Len(DestinationRequests) = 1

\* C13: once compose_object holds an upload id, an error of a copy-part or
\* of the completion request leads to exactly one abort request for that
\* upload id, and the call raises that same error.
C13_ComposeAbortOnceThenOriginalError ==
    (IsCompose /\ pc = "done" /\ upload_id # None /\ exc # NoError) =>
        /\ Cardinality(RequestsOf("AbortMultipartUpload")) = 1
        /\ \A i \in RequestsOf("AbortMultipartUpload") :
              requests[i].upload_id = upload_id
        /\ requests[Len(requests)].op = "AbortMultipartUpload"
        /\ raised = exc

----------------------------------------------------------------------------
\* Properties of the transport

\* The requests of a coroutine's call, the location lookup apart.
RequestsSent(c) == LET IsRequest(r) == r.op = "request" IN SelectSeq(c.sent, IsRequest)

\* The location lookups of a coroutine's call.
LookupsSent(c) == LET IsLookup(r) == r.op = "location" IN SelectSeq(c.sent, IsLookup)

RetryHead == Exception("S3Error", "RetryHead")

\* The coroutine handles a response in this step.
HandlesResponse(p) ==
    /\ coro[p].pc \in {"location", "attempt1", "attempt2", "make_bucket"}
    /\ coro'[p] # coro[p]

\* The coroutine's call of _execute begins in this step.
BeginsExecute(p) ==
    /\ coro[p].pc \in {"idle", "done"}
    /\ coro'[p].op = "_execute"
    /\ coro'[p].pc \in {"location", "attempt1"}

\* C14: a HEAD of _execute for a bucket with a region-cache entry, answered
\* with 301, 307 or 400 and an x-amz-bucket-region header, is classified
\* RetryHead and sent again exactly once, same method, bucket and region,
\* before any error reaches the caller; after the replay nothing is sent.
C14_RetryHeadReplayedOnce ==
    [][\A p \in Coroutines :
          LET c == coro[p]
              d == coro'[p]
          IN  /\ ( /\ c.op = "_execute" /\ c.pc = "attempt1" /\ d # c
                   /\ c.method = "HEAD"
                   /\ d.response.status \in RedirectStatuses
                   /\ d.response.region # None
                   /\ region_map[c.bucket_name] # None )
                 => /\ d.exc = RetryHead
                    /\ d.pc = "attempt2"
                    /\ d.raised = NoException /\ ~d.returned
                    /\ Len(d.sent) = Len(c.sent) + 1
                    /\ Len(RequestsSent(d)) = 2
                    /\ LET first == RequestsSent(d)[1]
                           replay == RequestsSent(d)[2]
                       IN  /\ replay.method = first.method
                           /\ replay.bucket_name = first.bucket_name
                           /\ replay.region = first.region
              /\ (c.op = "_execute" /\ c.pc = "attempt2" /\ d # c)
                 => (d.pc = "done" /\ d.sent = c.sent)
      ]_vars

\* A HEAD answered 307 with the region header is being replayed.
C14_Witness ==
    \E p \in Coroutines :
        /\ coro[p].op = "_execute" /\ coro[p].pc = "attempt2"
        /\ coro[p].method = "HEAD"
        /\ coro[p].response.status = 307
        /\ Len(RequestsSent(coro[p])) = 2

\* C15: _execute never raises an error of code RetryHead and never sends
\* its request a third time; when the replay too is classified RetryHead,
\* the error raised carries the code of the response's status:
\* PermanentRedirect, Redirect or BadRequest.
C15_RetryHeadNeverRaised ==
    \A p \in Coroutines :
        LET c == coro[p] IN
        c.op = "_execute" =>
            /\ c.raised.code # "RetryHead"
            /\ Len(RequestsSent(c)) <= 2
            /\ (c.pc = "done" /\ c.exc = RetryHead) =>
                  /\ Len(RequestsSent(c)) = 2
                  /\ c.raised.type = "S3Error"
                  /\ c.raised.code \in {"PermanentRedirect", "Redirect", "BadRequest"}
                  /\ c.response.status = 301 => c.raised.code = "PermanentRedirect"
                  /\ c.response.status = 307 => c.raised.code = "Redirect"
                  /\ c.response.status = 400 => c.raised.code = "BadRequest"

\* The replay of a HEAD was classified RetryHead, the bucket having a cache
\* entry again, and _execute raised BadRequest.
C15_Witness ==
    \E p \in Coroutines :
        /\ coro[p].op = "_execute" /\ coro[p].pc = "done"
        /\ coro[p].exc = RetryHead
        /\ coro[p].raised = Exception("S3Error", "BadRequest")

\* C16: when _url_open raises an error of code NoSuchBucket or RetryHead
\* for a bucket, the region cache has no entry for that bucket as the error
\* is raised, and the entry of no other bucket has changed.
C16_EvictionOnError ==
    [][\A p \in Coroutines :
          ( /\ HandlesResponse(p)
            /\ coro'[p].exc.type = "S3Error"
            /\ coro'[p].exc.code \in {"NoSuchBucket", "RetryHead"}
            /\ coro[p].bucket_name # None )
          => /\ region_map'[coro[p].bucket_name] = None
             /\ \A b \in Buckets \ {coro[p].bucket_name} :
                   region_map'[b] = region_map[b]
      ]_vars

\* A RetryHead has just evicted the bucket's entry, the other bucket keeping
\* its own.
C16_Witness ==
    \E p \in Coroutines :
        /\ coro[p].pc = "attempt2"
        /\ coro[p].exc = RetryHead
        /\ region_map[coro[p].bucket_name] = None
        /\ \E b \in Buckets \ {coro[p].bucket_name} : region_map[b] # None

\* The region the stated order resolves a bucket to without lookup: the
\* constructor's region, else the cache entry, else us-east-1 for an
\* anonymous client or no bucket; None where the lookup is due.
RegionByStatedOrder(bucket_name) ==
    IF base_region # None THEN base_region
    ELSE IF bucket_name # None /\ region_map[bucket_name] # None
    THEN region_map[bucket_name]
    ELSE IF bucket_name = None \/ ~provider THEN "us-east-1"
    ELSE None

\* C17: _execute resolves the region in the order constructor's region,
\* region cache, us-east-1 for an anonymous client or a missing bucket,
\* location lookup; so without constructor's region a bucket with a cache
\* entry resolves to the cached region also for an anonymous client.
C17_ResolutionOrder ==
    [][\A p \in Coroutines :
          BeginsExecute(p) =>
              LET region == RegionByStatedOrder(coro'[p].bucket_name) IN
              IF region = None
              THEN coro'[p].pc = "location"
              ELSE coro'[p].pc = "attempt1" /\ coro'[p].region = region
      ]_vars

\* C18: with a constructor's region every resolution returns that region,
\* sends no location lookup and leaves the region cache as it is.
C18_FixedRegionAlwaysResolved ==
    [][\A p \in Coroutines :
          (BeginsExecute(p) /\ base_region # None) =>
              /\ coro'[p].pc = "attempt1"
              /\ coro'[p].region = base_region
              /\ coro'[p].sent =
                    <<Sent("request", coro'[p].method, coro'[p].bucket_name,
                           base_region)>>
              /\ region_map' = region_map
      ]_vars

\* An anonymous client with a constructor's region has sent a request that
\* names no bucket, signed for the constructor's region.
C18_Witness ==
    /\ base_region # None /\ ~provider
    /\ \E p \in Coroutines :
          /\ coro[p].op = "_execute" /\ coro[p].pc = "attempt1"
          /\ coro[p].bucket_name = None
          /\ coro[p].sent[1].region = base_region

\* The region a LocationConstraint text stands for.
RegionOfLocation(text) ==
    CASE text = "" -> "us-east-1"
      [] text = "EU" -> "eu-west-1"
      [] OTHER -> text

\* C19: for a client with credentials and no constructor's region, the
\* resolution of a bucket without cache entry sends exactly one
\* GetBucketLocation request and stores the region of its answer (empty:
\* us-east-1, "EU": eu-west-1, else the text) in the cache; the resolution
\* of a bucket with a cache entry returns the entry and sends no lookup.
C19_LookupOnceThenCached ==
    [][\A p \in Coroutines :
          LET c == coro[p]
              d == coro'[p]
          IN  (provider /\ base_region = None) =>
              /\ (BeginsExecute(p) /\ d.bucket_name # None) =>
                    IF region_map[d.bucket_name] = None
                    THEN /\ d.pc = "location"
                         /\ d.sent = <<Sent("location", "GET", d.bucket_name,
                                            "us-east-1")>>
                    ELSE /\ d.pc = "attempt1"
                         /\ d.region = region_map[d.bucket_name]
                         /\ LookupsSent(d) = <<>>
                         /\ region_map' = region_map
              /\ (c.pc = "location" /\ d # c /\ d.exc = NoException) =>
                    /\ region_map' = [region_map EXCEPT ![c.bucket_name] =
                                         RegionOfLocation(d.response.body)]
                    /\ d.region = RegionOfLocation(d.response.body)
                    /\ Len(LookupsSent(d)) = 1
                    /\ d.pc = "attempt1"
      ]_vars

\* A request was sent for the region ap-south-1 without lookup: the region
\* is the cache entry an earlier lookup stored (make_bucket stores none such).
C19_Witness ==
    /\ provider /\ base_region = None
    /\ \E p \in Coroutines :
          /\ coro[p].op = "_execute" /\ coro[p].pc = "attempt1"
          /\ coro[p].bucket_name # None
          /\ LookupsSent(coro[p]) = <<>>
          /\ coro[p].region = "ap-south-1"

\* C20: every request _url_open sends, the replay and the location lookup
\* too, is signed with the credentials the provider returns as that request
\* is made (unsigned without provider): renewed credentials are used from
\* the next request on.
C20_CredentialsPerRequest ==
    [][\A p \in Coroutines :
          (coro'[p].sent # coro[p].sent /\ coro'[p].sent # <<>>) =>
              LET r == coro'[p].sent[Len(coro'[p].sent)] IN
              r.credentials = (IF provider THEN credentials ELSE Unsigned)
      ]_vars

\* The credentials were renewed between a HEAD and its replay: the replay is
\* signed with the new ones.
C20_Witness ==
    \E p \in Coroutines :
        /\ coro[p].pc = "attempt2"
        /\ Len(RequestsSent(coro[p])) = 2
        /\ RequestsSent(coro[p])[1].credentials = 1
        /\ RequestsSent(coro[p])[2].credentials = 2

----------------------------------------------------------------------------
\* Properties of the request headers

----------------------------------------------------------------------------
\* Properties of get_presigned_url

\* C22: get_presigned_url raises a validation error for an expiry below 1
\* second or above 7 days (604800 seconds) before any location lookup or
\* other request is made; the expiries of exactly 1 second and exactly 7
\* days pass the check.
C22_ExpiryValidatedFirst ==
    \A p \in Coroutines :
        LET c == coro[p] IN
        c.op = "get_presigned_url" =>
            /\ (c.expires < 1000 \/ c.expires > 604800000) =>
                  /\ c.pc = "done"
                  /\ c.raised = Exception("ValueError", None)
                  /\ c.sent = <<>>
                  /\ c.region = None
                  /\ c.response = NoResponse
            /\ c.expires \in {1000, 604800000} =>
                  c.raised # Exception("ValueError", None)

\* get_presigned_url with an expiry of exactly 7 days has looked the region
\* up and returned its URL.
C22_Witness ==
    \E p \in Coroutines :
        /\ coro[p].op = "get_presigned_url"
        /\ coro[p].expires = 604800000
        /\ coro[p].pc = "done" /\ coro[p].returned
        /\ Len(coro[p].sent) = 1

----------------------------------------------------------------------------
\* Properties of the responses _url_open rejects

\* The method of the request the coroutine is waiting on the response of.
AwaitedMethod(c) == c.sent[Len(c.sent)].method

\* C23: a response without a success status to a request other than HEAD,
\* whose content type is not XML or whose body is empty, is raised as
\* InvalidResponseError and never as S3Error; the response to a HEAD is
\* never raised as InvalidResponseError.
C23_InvalidResponse ==
    [][\A p \in Coroutines :
          HandlesResponse(p) =>
              LET method == AwaitedMethod(coro[p])
                  response == coro'[p].response
              IN  response.status \notin {200, 204, 206} =>
                      /\ (method # "HEAD" /\ (~response.xml \/ response.body = None)) =>
                            /\ coro'[p].exc.type = "InvalidResponseError"
                            /\ coro'[p].raised.type = "InvalidResponseError"
                      /\ method = "HEAD" =>
                            /\ coro'[p].exc.type # "InvalidResponseError"
                            /\ coro'[p].raised.type # "InvalidResponseError"]_vars

\* A GET of _execute was answered 404 with a text that is not XML and names
\* an S3 error code, and InvalidResponseError was raised.
C23_Witness ==
    \E p \in Coroutines :
        /\ coro[p].op = "_execute" /\ coro[p].method = "GET"
        /\ coro[p].pc = "done"
        /\ Len(coro[p].sent) = 1
        /\ coro[p].response = Response(404, None, FALSE, "AccessDenied")
        /\ coro[p].raised = Exception("InvalidResponseError", None)

----------------------------------------------------------------------------
\* Properties of the parallel part uploads of put_object

\* The tasks whose UploadPart request is sent and not yet answered.
InFlight == {i \in 1..Len(parallel_tasks) : parallel_tasks[i].state = "sent"}

\* C24: in parallel mode the number of UploadPart requests of one
\* put_object in flight at the same time stays under a bound that does not
\* grow with the part count: it is below the largest part count an upload
\* can have.
C24_InFlightBounded ==
    call = "put_object" => Cardinality(InFlight) < MAX_MULTIPART_COUNT

\* The AbortMultipartUpload request has been sent.
AbortIssued ==
    \E k \in 1..Len(requests) : requests[k].op = "AbortMultipartUpload"

\* C25: put_object never cancels a part upload it has submitted: every
\* task stays pending, sent or finished, and once an error has made the
\* call send the abort request, a task not yet started can still send its
\* request and a task in flight can still finish.
C25_SubmittedUploadsNeverCancelled ==
    call = "put_object" =>
        \A i \in 1..Len(parallel_tasks) :
            /\ parallel_tasks[i].state \in {"pending", "sent", "ok", "error"}
            /\ parallel_tasks[i].part_number = i
            /\ AbortIssued =>
                  /\ parallel_tasks[i].state = "pending" => ENABLED TaskSend(i)
                  /\ parallel_tasks[i].state = "sent" => ENABLED TaskFinish(i)

\* An UploadPart request was sent after the abort request, and its task
\* has finished.
C25_Witness ==
    /\ call = "put_object" /\ pc = "done" /\ parallel_upload
    /\ \E k, j \in 1..Len(requests) :
          /\ k < j
          /\ requests[k].op = "AbortMultipartUpload"
          /\ requests[j].op = "UploadPart"
          /\ parallel_tasks[requests[j].part_number].state = "ok"

----------------------------------------------------------------------------
\* Properties of concurrent region lookups

\* The call is an _execute that looked the region of its bucket up and got
\* one.
LookedUp(c) ==
    /\ c.op = "_execute"
    /\ Len(LookupsSent(c)) = 1
    /\ c.region # None

\* Both coroutines have finished an _execute for the same bucket, each
\* after a lookup of its own.
BothLookedUp ==
    /\ \A p \in Coroutines : LookedUp(coro[p]) /\ coro[p].pc = "done"
    /\ coro[1].bucket_name = coro[2].bucket_name

\* After its lookup the coroutine sends its request for the region the
\* lookup returned.
ProceedsWithLookedUpRegion ==
    \A p \in Coroutines :
        (LookedUp(coro[p]) /\ coro[p].pc = "attempt1") =>
            /\ coro[p].region = RegionOfLocation(coro[p].response.body)
            /\ coro[p].sent[2].region = coro[p].region
            /\ coro[p].sent[2].bucket_name = coro[p].sent[1].bucket_name

\* The call got no answer that drops the cache entry (lines 305-306).
NoEvictingAnswer(c) ==
    /\ Len(RequestsSent(c)) = 1
    /\ c.exc.code \notin {"NoSuchBucket", "RetryHead"}

\* C26 as stated: requests for the same bucket without cache entry may
\* each send a lookup and write the cache; each proceeds with the region its
\* lookup returned, and once all have finished the cache holds one of the
\* regions looked up.
C26_ConcurrentLookups ==
    /\ ProceedsWithLookedUpRegion
    /\ BothLookedUp =>
          region_map[coro[1].bucket_name] \in {coro[1].region, coro[2].region}

\* C26 amended: the cache holds one of the regions looked up once all have
\* finished, provided none of the requests was answered with an error of
\* code NoSuchBucket or RetryHead, which drops the entry.
C26_ConcurrentLookupsUnlessEvicted ==
    /\ ProceedsWithLookedUpRegion
    /\ (BothLookedUp /\ \A p \in Coroutines : NoEvictingAnswer(coro[p])) =>
          region_map[coro[1].bucket_name] \in {coro[1].region, coro[2].region}

\* Two requests for the same bucket each looked the region up, the lookups
\* returned different regions, both requests are answered, and the cache
\* holds the region of the first coroutine's lookup.
C26_Witness ==
    /\ BothLookedUp
    /\ \A p \in Coroutines : NoEvictingAnswer(coro[p]) /\ coro[p].returned
    /\ coro[1].region # coro[2].region
    /\ region_map[coro[1].bucket_name] = coro[1].region

----------------------------------------------------------------------------
\* Properties of the requests sent again

\* put_object sends no request twice: one UploadPart for a part number,
\* and one creation, completion and abort at most.
NothingSentAgain ==
    /\ \A k, j \in RequestsOf("UploadPart") :
          requests[k].part_number = requests[j].part_number => k = j
    /\ \A op \in {"CreateMultipartUpload", "CompleteMultipartUpload",
                   "AbortMultipartUpload", "PutObject"} :
          Cardinality(RequestsOf(op)) <= 1

\* C28: _execute sends its request at most twice, the second time only
\* when the answer to the first was classified RetryHead, which happens to
\* a HEAD only; a PUT, POST or DELETE (part upload and copy, creation,
\* completion, abort) is sent once, and a put_object uploads each part
\* number at most once.
C28_SentAgainOnlyOnRetryHead ==
    [][/\ call = "put_object" => NothingSentAgain /\ NothingSentAgain'
       /\ call = "client" =>
             \A p \in Coroutines :
                 LET c == coro[p]
                     d == coro'[p]
                 IN  d.op = "_execute" =>
                     /\ Len(RequestsSent(d)) <= 2
                     /\ Len(LookupsSent(d)) <= 1
                     /\ d.method # "HEAD" => Len(RequestsSent(d)) <= 1
                     /\ (Len(RequestsSent(d)) = 2 /\ Len(RequestsSent(c)) < 2) =>
                           /\ c.op = "_execute" /\ c.pc = "attempt1"
                           /\ d.exc = RetryHead
                           /\ d.response.status \in {301, 307, 400}
                           /\ d.method = "HEAD"
      ]_vars

\* A PUT of _execute was answered with a redirect carrying an error document
\* and the bucket's region, the bucket having a cache entry, and the error
\* was raised after the one request.
C28_Witness ==
    /\ call = "client"
    /\ \E p \in Coroutines :
          /\ coro[p].op = "_execute" /\ coro[p].method = "PUT"
          /\ coro[p].pc = "done"
          /\ coro[p].response = Response(301, "eu-west-1", TRUE, "PermanentRedirect")
          /\ region_map["b1"] # None
          /\ coro[p].raised = Exception("S3Error", "PermanentRedirect")
          /\ Len(RequestsSent(coro[p])) = 1

----------------------------------------------------------------------------
\* Properties of the copy-part requests of compose_object

\* The UploadPartCopy requests in the order sent.
CopyPartRequests ==
    LET IsCopyPart(r) == r.op = "UploadPartCopy" IN SelectSeq(requests, IsCopyPart)

\* The copy-part requests sent for source i.
CopyPartsOf(i) ==
    {k \in 1..Len(CopyPartRequests) : CopyPartRequests[k].body.source = i}

\* C29: a multipart compose that succeeds has sent as many copy-part
\* requests as _calc_part_count counted parts, numbered 1..count without a
\* gap across the sources in their order, and holds one Part per request;
\* the split loop terminates: each pass takes MAX_PART_SIZE bytes off the
\* size still to copy, which stays above 0 while the loop runs.
C29_CopyPartsMatchPlan ==
    call = "compose_object" =>
        /\ \A k \in 1..Len(CopyPartRequests) :
              /\ CopyPartRequests[k].part_number = k
              /\ k > 1 => CopyPartRequests[k - 1].body.source
                              <= CopyPartRequests[k].body.source
        /\ Len(CopyPartRequests) <= PlanPartCount(Len(sources))
        /\ pc = "split" =>
              /\ size > 0
              /\ size = EffectiveSize(sources[src_i])
                           - MAX_PART_SIZE * Cardinality(CopyPartsOf(src_i))
        /\ (pc = "done" /\ result = "ObjectWriteResult" /\ upload_id # None) =>
              /\ Len(CopyPartRequests) = PlanPartCount(Len(sources))
              /\ part_count = PlanPartCount(Len(sources))
              /\ total_parts = [k \in 1..Len(CopyPartRequests) |-> Part(k, k)]
              /\ \A i \in 1..Len(sources) :
                    Cardinality(CopyPartsOf(i)) =
                        IF EffectiveSize(sources[i]) <= MAX_PART_SIZE THEN 1
                        ELSE Ceil(EffectiveSize(sources[i]), MAX_PART_SIZE)

\* A compose of two sources succeeded with three parts, two of them split
\* from the first source.
C29_Witness ==
    /\ call = "compose_object" /\ pc = "done" /\ result = "ObjectWriteResult"
    /\ Len(sources) = 2
    /\ Cardinality(CopyPartsOf(1)) = 2
    /\ Len(CopyPartRequests) = 3

----------------------------------------------------------------------------
\* Properties of the replay of a client making one call after the other

\* C30: in an _execute with no other request for the bucket under way, the
\* replay is never classified RetryHead: the RetryHead of the first attempt
\* dropped the bucket's cache entry before the replay is sent; a 301, 307
\* or 400 answer to the replay is raised as it comes from _url_open, with
\* the code PermanentRedirect, Redirect or BadRequest.
C30_ReplayNeverRetryHead ==
    \A p \in Sequential :
        LET c == coro[p] IN
        c.op = "_execute" =>
            /\ c.pc = "attempt2" =>
                  /\ c.exc = RetryHead
                  /\ region_map[c.bucket_name] = None
            /\ (c.pc = "done" /\ Len(RequestsSent(c)) = 2) =>
                  /\ c.exc # RetryHead
                  /\ c.raised = c.exc
                  /\ c.response.status = 301 =>
                        c.raised = Exception("S3Error", "PermanentRedirect")
                  /\ c.response.status = 307 =>
                        c.raised = Exception("S3Error", "Redirect")
                  /\ c.response.status = 400 =>
                        c.raised = Exception("S3Error", "BadRequest")

\* The replay of a HEAD was answered 307 with the x-amz-bucket-region
\* header, and Redirect was raised.
C30_Witness ==
    \E p \in Sequential :
        /\ coro[p].op = "_execute" /\ coro[p].pc = "done"
        /\ Len(RequestsSent(coro[p])) = 2
        /\ coro[p].response.status = 307
        /\ coro[p].response.region # None
        /\ coro[p].raised = Exception("S3Error", "Redirect")

----------------------------------------------------------------------------
\* Properties of the region of the replay

\* C31: the replay of _execute is sent with the region resolved before the
\* first attempt: between the two attempts no lookup is sent and the
\* region is not resolved again, though the first attempt dropped the
\* bucket's cache entry and the response named another region.
C31_ReplayKeepsRegion ==
    [][\A p \in Coroutines :
          LET c == coro[p]
              d == coro'[p]
          IN  (c.op = "_execute" /\ c.pc = "attempt1" /\ d.pc = "attempt2") =>
                  /\ region_map'[c.bucket_name] = None
                  /\ d.region = c.region
                  /\ d.sent = Append(c.sent, c.sent[Len(c.sent)])
                  /\ d.sent[Len(d.sent)].op = "request"
                  /\ d.sent[Len(d.sent)].region = c.region
                  /\ LookupsSent(d) = LookupsSent(c)
      ]_vars

\* A replay is under way for the region resolved at first, the response
\* to the first attempt having named another one and the cache entry being
\* dropped.
C31_Witness ==
    \E p \in Coroutines :
        /\ coro[p].op = "_execute" /\ coro[p].pc = "attempt2"
        /\ coro[p].response.region # None
        /\ coro[p].response.region # coro[p].region
        /\ region_map[coro[p].bucket_name] = None
        /\ RequestsSent(coro[p])[2].region = coro[p].region

----------------------------------------------------------------------------
\* Properties of the end of a multipart call

\* The CompleteMultipartUpload requests sent so far.
CompletionsSent == RequestsOf("CompleteMultipartUpload")

----------------------------------------------------------------------------
\* Properties of the completion of a parallel put_object

\* C33: in parallel mode put_object sends the completion request only
\* after every part upload it submitted has finished with success, each
\* UploadPart request preceding the completion; when a part upload has
\* failed no completion request is sent.
C33_CompletionAfterAllParts ==
    (call = "put_object" /\ parallel_upload) =>
        /\ CompletionsSent # {} =>
              /\ Len(parallel_tasks) = part_number
              /\ \A i \in 1..Len(parallel_tasks) :
                    /\ parallel_tasks[i].state = "ok"
                    /\ \E k \in RequestsOf("UploadPart") :
                          /\ requests[k].part_number = i
                          /\ \A c \in CompletionsSent : k < c
        /\ (\E i \in 1..Len(parallel_tasks) : parallel_tasks[i].state = "error") =>
              CompletionsSent = {}

\* A parallel put_object sent its completion request after its three part
\* uploads, the last part's upload finishing first.
C33_Witness ==
    /\ call = "put_object" /\ parallel_upload
    /\ CompletionsSent # {}
    /\ Len(parallel_tasks) = 3
    /\ finished[1] = 3

----------------------------------------------------------------------------
\* Properties of an error before the multipart session

\* The errors of the steps that precede the upload id: the read of a part,
\* the single PutObject, and CreateMultipartUpload.
EarlyErrors == {"ReadError", "PutObjectError", "CreateMultipartUploadError"}

\* C34: an error raised before an upload id exists (put_object: the read
\* of the first part or CreateMultipartUpload failing; compose_object:
\* CreateMultipartUpload failing) sends no abort request and reaches the
\* caller unchanged.
C34_EarlyErrorNoAbort ==
    /\ upload_id = None => ~AbortIssued
    /\ (call = "put_object" /\ exc[1] \in EarlyErrors /\ upload_id = None) =>
          /\ exc[1] = "ReadError" => exc = Err("ReadError", 1)
          /\ exc[1] = "CreateMultipartUploadError" =>
                requests[Len(requests)].op = "CreateMultipartUpload"
          /\ pc \in {"except", "done"}
          /\ pc = "done" => raised = exc
    /\ (call = "compose_object" /\ RequestsOf("CreateMultipartUpload") # {}
           /\ upload_id = None) =>
          /\ pc = "done"
          /\ raised = Err("CreateMultipartUploadError", 0)
          /\ requests[Len(requests)].op = "CreateMultipartUpload"

\* put_object has ended with the error of its CreateMultipartUpload
\* request, the last request it sent.
C34_Witness ==
    /\ call = "put_object" /\ pc = "done"
    /\ upload_id = None
    /\ raised = Err("CreateMultipartUploadError", 1)
    /\ requests = <<Request("CreateMultipartUpload", None, 0, <<>>)>>

----------------------------------------------------------------------------
\* Properties of remove_bucket and make_bucket

\* The coroutine's remove_bucket has returned.
Removed(c) == c.op = "remove_bucket" /\ c.pc = "done" /\ c.returned

\* The coroutine's call has stored a cache entry for its bucket: a
\* make_bucket that returned, or a location lookup that was answered.
HasStored(c) ==
    \/ c.op = "make_bucket" /\ c.returned
    \/ Len(LookupsSent(c)) = 1 /\ c.region # None

\* C35 as stated: after remove_bucket(b) has returned, the cache holds no
\* entry for b until a make_bucket or a lookup for b that began after the
\* removal completes; so it holds none while no call has begun since
\* remove_bucket returned, whatever was in flight during the removal.
C35_NoEntryAfterRemove ==
    \A q \in Coroutines :
        (Removed(coro[q]) /\ calls = coro[q].at) =>
            region_map[coro[q].bucket_name] = None

\* C35 amended: when remove_bucket(b) returns the cache holds no entry for
\* b, and an entry for b appears only as a make_bucket or a location
\* lookup for b completes; that call may have begun before the removal:
\* while no call has begun since the removal, an entry for b was stored by
\* the call of another coroutine that was in flight during the removal.
C35_EntryOnlyByCompletedWrite ==
    [][/\ \A q \in Coroutines :
             /\ (Removed(coro'[q]) /\ ~Removed(coro[q])) =>
                   region_map'[coro[q].bucket_name] = None
             /\ (Removed(coro'[q]) /\ calls' = coro'[q].at
                    /\ region_map'[coro'[q].bucket_name] # None) =>
                   \E p \in Coroutines \ {q} :
                       /\ coro'[p].bucket_name = coro'[q].bucket_name
                       /\ HasStored(coro'[p])
       /\ \A b \in Buckets :
             (region_map[b] = None /\ region_map'[b] # None) =>
                 \E p \in Coroutines :
                     /\ coro[p].pc \in {"location", "make_bucket"}
                     /\ coro[p].bucket_name = b
                     /\ coro'[p] # coro[p]
                     /\ coro'[p].exc = NoException
      ]_vars

\* remove_bucket has returned, no call has begun since, and the cache
\* holds an entry for the bucket again: the lookup of a HEAD that was in
\* flight during the removal has been answered.
C35_Witness ==
    \E q, p \in Coroutines :
        /\ Removed(coro[q]) /\ calls = coro[q].at
        /\ region_map[coro[q].bucket_name] # None
        /\ coro[p].op = "_execute" /\ coro[p].bucket_name = coro[q].bucket_name
        /\ Len(LookupsSent(coro[p])) = 1

\* The coroutine takes this step.
StepOf(p) == coro'[p] # coro[p]

\* C36 as stated: make_bucket sets the entry of its bucket, to the creation
\* region, only after its PUT succeeded, and a failing make_bucket adds no
\* entry; remove_bucket deletes the entry of its bucket only after its
\* DELETE succeeded; neither changes the entry of another bucket.
C36_CacheChangedOnSuccessOnly ==
    [][\A p \in Coroutines :
          (StepOf(p) /\ coro'[p].op \in {"make_bucket", "remove_bucket"}) =>
              LET d == coro'[p]
                  b == d.bucket_name
              IN  /\ \A o \in Buckets \ {b} : region_map'[o] = region_map[o]
                  /\ d.op = "make_bucket" =>
                        /\ d.returned => region_map'[b] = d.sent[1].region
                        /\ ~d.returned =>
                              region_map'[b] \in {region_map[b], None}
                  /\ d.op = "remove_bucket" =>
                        /\ d.returned => region_map'[b] = None
                        /\ (region_map[b] # None /\ region_map'[b] = None) =>
                              d.returned
      ]_vars

\* C36 amended: as stated, but remove_bucket also drops the entry of its
\* bucket when its lookup or its DELETE is answered with an error of code
\* NoSuchBucket, as a failing make_bucket does, and remove_bucket stores
\* the entry when its own lookup is answered.
C36_CacheChangedOnSuccessOrEviction ==
    [][\A p \in Coroutines :
          (StepOf(p) /\ coro'[p].op \in {"make_bucket", "remove_bucket"}) =>
              LET d == coro'[p]
                  b == d.bucket_name
              IN  /\ \A o \in Buckets \ {b} : region_map'[o] = region_map[o]
                  /\ d.op = "make_bucket" =>
                        /\ d.returned => region_map'[b] = d.sent[1].region
                        /\ ~d.returned =>
                              region_map'[b] \in {region_map[b], None}
                        /\ (region_map[b] # None /\ region_map'[b] = None) =>
                              d.exc.code = "NoSuchBucket"
                  /\ d.op = "remove_bucket" =>
                        /\ d.returned => region_map'[b] = None
                        /\ (region_map[b] # None /\ region_map'[b] = None) =>
                              d.returned \/ d.exc.code = "NoSuchBucket"
                        /\ (region_map'[b] # None /\ region_map'[b] # region_map[b]) =>
                              /\ coro[p].pc = "location"
                              /\ region_map'[b] = d.region
      ]_vars

\* A make_bucket has failed and its bucket has no cache entry, the other
\* bucket having one.
C36_Witness ==
    \E p \in Coroutines :
        /\ coro[p].op = "make_bucket" /\ coro[p].pc = "done"
        /\ coro[p].exc # NoException
        /\ Len(coro[p].sent) = 1
        /\ region_map[coro[p].bucket_name] = None
        /\ \E o \in Buckets \ {coro[p].bucket_name} : region_map[o] # None

----------------------------------------------------------------------------
\* Properties of a 409 answer

\* C37: an answer of status 409 without body to a request that names a
\* bucket is raised as S3Error of code NoSuchBucket and the bucket's cache
\* entry is dropped; to a request without bucket it is raised as S3Error
\* of code ResourceConflict.
C37_ConflictMapped ==
    \A p \in Coroutines :
        LET c == coro[p] IN
        (c.op = "_execute" /\ c.pc = "done" /\ c.response.status = 409
           /\ c.response.body = None) =>
            IF c.bucket_name # None
            THEN /\ c.raised = Exception("S3Error", "NoSuchBucket")
                 /\ region_map[c.bucket_name] = None
            ELSE c.raised = Exception("S3Error", "ResourceConflict")

----------------------------------------------------------------------------
\* Properties of remove_objects

\* The objects of the delete requests sent so far, in sending order.
RECURSIVE ObjectsSent(_)
ObjectsSent(reqs) ==
    IF reqs = <<>> THEN <<>>
    ELSE Head(reqs).body \o ObjectsSent(Tail(reqs))

\* The input objects in input order: those sent, then the batch taken and
\* not yet sent, then those not yet taken.
InputObjects ==
    ObjectsSent(requests) \o (IF pc = "delete" THEN objects ELSE <<>>)
        \o delete_object_list

\* C38: remove_objects sends the input objects in consecutive batches of
\* at most the batch limit, each input object in exactly one delete
\* request and in input order (no step loses, repeats or reorders an
\* object, and the call ends normally only with every object sent); no
\* request is empty; and a batch yields exactly the reported errors whose
\* code is not NoSuchVersion, nothing when there is none.
C38_BatchesCoverInput ==
    [][ call = "remove_objects" =>
          /\ InputObjects' = InputObjects
          /\ \A i \in 1..Len(requests') :
                /\ requests'[i].body # <<>>
                /\ Len(requests'[i].body) <= MaxDeleteBatch
          /\ (pc' = "done" /\ raised' = NoError) =>
                ObjectsSent(requests') = InputObjects
          /\ requests' # requests =>
                /\ requests' = Append(requests,
                                   Request("DeleteObjects", None, 0, objects))
                /\ raised' = NoError =>
                      LET kept == SelectSeq(result',
                                     LAMBDA er : er.code # "NoSuchVersion")
                      IN yielded' = IF kept = <<>> THEN yielded
                                    ELSE Append(yielded, kept)
                /\ raised' # NoError => yielded' = yielded
          /\ requests' = requests => yielded' = yielded
      ]_vars

\* An input longer than two batches has been sent whole, and a batch that
\* reported a NoSuchVersion error next to another one yielded the other.
C38_Witness ==
    /\ call = "remove_objects" /\ pc = "done" /\ raised = NoError
    /\ Len(requests) > 2
    /\ ObjectsSent(requests) = [i \in 1..MaxDeleteList |-> i]
    /\ \E i \in 1..Len(yielded) :
          /\ Len(yielded[i]) = 1
          /\ yielded[i][1].code = "AccessDenied"
    /\ Len(result) = 1 /\ result[1].code = "NoSuchVersion"

----------------------------------------------------------------------------
\* Properties of list_objects

\* C39: when a listing is truncated, list_objects keeps requesting further
\* pages, passing the continuation marker of the previous page, until a
\* response is not truncated, and returns the objects of all pages: a
\* listing that returned has seen a response that was not truncated and
\* returns every object after start_after.
C39_AllPagesListed ==
    (call = "list_objects" /\ pc = "done" /\ raised = NoError) =>
        /\ ~listing.is_truncated
        /\ result = ObjectRange(requests[1].body.start_after, listing.count)

----------------------------------------------------------------------------
\* Properties of fget_object

\* C40: fget_object leaves at file_path a file whose content equals the
\* whole object, also when a partial temporary file of size k
\* (0 < k <= object size) existed and the download was resumed from offset
\* k; a temporary file larger than the object is discarded and the
\* download restarts from offset 0.
C40_FileHoldsObject ==
    (call = "fget_object" /\ pc = "done" /\ raised = NoError) =>
        /\ download.file_exists
        /\ download.file = download.data
        /\ download.offset <= Len(download.data)

====
